---------------------------- MODULE Spec2Model ----------------------------
(***************************************************************************)
(* A model of builtin-pickaxe.c: the blame scoreboard (an ordered list of  *)
(* blame entries), the patch adapter that turns unified-diff lines into    *)
(* chunks, the propagation of blame to parents, the move and copy search,  *)
(* and the assign_blame driver.                                            *)
(*                                                                         *)
(* The linked list sb->ent is the sequence `ent`; the order of the         *)
(* sequence is the order of the next pointers.  An origin is the pair      *)
(* (commit, path); its blob_sha1 is the content the repository holds       *)
(* there, so two blob digests are equal exactly when the contents are.     *)
(* A file is a sequence of lines and a line is a symbol of Alnum's domain. *)
(***************************************************************************)
EXTENDS Integers, Sequences, FiniteSets, TLC

VARIABLES
    repo,           \* the repository and the command line: never changes
    ent,            \* sb->ent, the list of blame entries, in list order
    pc,             \* where the command is
    suspect,        \* assign_blame's suspect / pass_blame's origin
    parent_origin,  \* pass_blame's parent_origin[], one slot per parent
    pidx,           \* pass_blame's loop index i, 1-based
    fatal,          \* why the process died, "" while it has not
    mid,            \* the lists split_blame left during the last step
    arg,            \* input of a unit under test
    res             \* its result

vars == <<repo, ent, pc, suspect, parent_origin, pidx, fatal, mid, arg, res>>

-----------------------------------------------------------------------------
(* Bounds *)

MaxLines == 3

(* Program constants *)

BLAME_DEFAULT_MOVE_SCORE == 20
BLAME_DEFAULT_COPY_SCORE == 40
MAXPARENT == 16

-----------------------------------------------------------------------------
(* Lines, files, origins *)

\* The number of alphanumeric bytes of each line the model knows: "a" is a
\* line of identifiers, "b" a short one, "c" a line of punctuation only.
Alnum == [a |-> 30, b |-> 12, c |-> 0]

NoBlob == <<"absent">>

NoOrigin == [commit |-> "", path |-> ""]

Min(a, b) == IF a < b THEN a ELSE b

Max(a, b) == IF a < b THEN b ELSE a

ZeroEntry ==
    [lno |-> 0, num_lines |-> 0, suspect |-> NoOrigin, guilty |-> FALSE,
     s_lno |-> 0, score |-> 0]

cmp_suspect(a, b) == IF a.commit = b.commit /\ a.path = b.path THEN 0 ELSE 1

-----------------------------------------------------------------------------
(* The partition store *)

\* A faulty split_overlap: what follows the region starts a line late.
split_overlap_gap(e, tlno, plno, same, parent) ==
    LET pre == e.s_lno < tlno
        s0 == IF pre
              THEN [ZeroEntry EXCEPT !.suspect = e.suspect, !.lno = e.lno,
                                     !.s_lno = e.s_lno,
                                     !.num_lines = tlno - e.s_lno]
              ELSE ZeroEntry
        m0 == IF pre
              THEN [ZeroEntry EXCEPT !.lno = e.lno + tlno - e.s_lno,
                                     !.s_lno = plno]
              ELSE [ZeroEntry EXCEPT !.lno = e.lno,
                                     !.s_lno = plno + (e.s_lno - tlno)]
        post == same < e.s_lno + e.num_lines
        s2 == IF post
              THEN [ZeroEntry EXCEPT !.suspect = e.suspect,
                                     !.lno = e.lno + (same - e.s_lno) + 1,
                                     !.s_lno = e.s_lno + (same - e.s_lno),
                                     !.num_lines = e.s_lno + e.num_lines - same]
              ELSE ZeroEntry
        chunk_end_lno == IF post THEN s2.lno ELSE e.lno + e.num_lines
        m1 == [m0 EXCEPT !.num_lines = chunk_end_lno - m0.lno]
        s1 == IF m1.num_lines < 1 THEN m1 ELSE [m1 EXCEPT !.suspect = parent]
    IN  <<s0, s1, s2>>

\* A faulty split_overlap: the middle part of an entry that begins inside the
\* region counts its source line backwards.
split_overlap_backwards(e, tlno, plno, same, parent) ==
    LET pre == e.s_lno < tlno
        s0 == IF pre
              THEN [ZeroEntry EXCEPT !.suspect = e.suspect, !.lno = e.lno,
                                     !.s_lno = e.s_lno,
                                     !.num_lines = tlno - e.s_lno]
              ELSE ZeroEntry
        m0 == IF pre
              THEN [ZeroEntry EXCEPT !.lno = e.lno + tlno - e.s_lno,
                                     !.s_lno = plno]
              ELSE [ZeroEntry EXCEPT !.lno = e.lno,
                                     !.s_lno = plno - (e.s_lno - tlno)]
        post == same < e.s_lno + e.num_lines
        s2 == IF post
              THEN [ZeroEntry EXCEPT !.suspect = e.suspect,
                                     !.lno = e.lno + (same - e.s_lno),
                                     !.s_lno = e.s_lno + (same - e.s_lno),
                                     !.num_lines = e.s_lno + e.num_lines - same]
              ELSE ZeroEntry
        chunk_end_lno == IF post THEN s2.lno ELSE e.lno + e.num_lines
        m1 == [m0 EXCEPT !.num_lines = chunk_end_lno - m0.lno]
        s1 == IF m1.num_lines < 1 THEN m1 ELSE [m1 EXCEPT !.suspect = parent]
    IN  <<s0, s1, s2>>

\* A faulty split_overlap: the middle part keeps the line numbers the lines
\* have in the target, not the ones they have in the parent.
split_overlap_target_lno(e, tlno, plno, same, parent) ==
    LET pre == e.s_lno < tlno
        s0 == IF pre
              THEN [ZeroEntry EXCEPT !.suspect = e.suspect, !.lno = e.lno,
                                     !.s_lno = e.s_lno,
                                     !.num_lines = tlno - e.s_lno]
              ELSE ZeroEntry
        m0 == IF pre
              THEN [ZeroEntry EXCEPT !.lno = e.lno + tlno - e.s_lno,
                                     !.s_lno = tlno]
              ELSE [ZeroEntry EXCEPT !.lno = e.lno, !.s_lno = e.s_lno]
        post == same < e.s_lno + e.num_lines
        s2 == IF post
              THEN [ZeroEntry EXCEPT !.suspect = e.suspect,
                                     !.lno = e.lno + (same - e.s_lno),
                                     !.s_lno = e.s_lno + (same - e.s_lno),
                                     !.num_lines = e.s_lno + e.num_lines - same]
              ELSE ZeroEntry
        chunk_end_lno == IF post THEN s2.lno ELSE e.lno + e.num_lines
        m1 == [m0 EXCEPT !.num_lines = chunk_end_lno - m0.lno]
        s1 == IF m1.num_lines < 1 THEN m1 ELSE [m1 EXCEPT !.suspect = parent]
    IN  <<s0, s1, s2>>

\* split_overlap: split[1..3] are the code's split[0..2].
split_overlap(e, tlno, plno, same, parent) ==
    LET pre == e.s_lno < tlno
        s0 == IF pre
              THEN [ZeroEntry EXCEPT !.suspect = e.suspect, !.lno = e.lno,
                                     !.s_lno = e.s_lno,
                                     !.num_lines = tlno - e.s_lno]
              ELSE ZeroEntry
        m0 == IF pre
              THEN [ZeroEntry EXCEPT !.lno = e.lno + tlno - e.s_lno,
                                     !.s_lno = plno]
              ELSE [ZeroEntry EXCEPT !.lno = e.lno,
                                     !.s_lno = plno + (e.s_lno - tlno)]
        post == same < e.s_lno + e.num_lines
        s2 == IF post
              THEN [ZeroEntry EXCEPT !.suspect = e.suspect,
                                     !.lno = e.lno + (same - e.s_lno),
                                     !.s_lno = e.s_lno + (same - e.s_lno),
                                     !.num_lines = e.s_lno + e.num_lines - same]
              ELSE ZeroEntry
        chunk_end_lno == IF post THEN s2.lno ELSE e.lno + e.num_lines
        m1 == [m0 EXCEPT !.num_lines = chunk_end_lno - m0.lno]
        s1 == IF m1.num_lines < 1 THEN m1 ELSE [m1 EXCEPT !.suspect = parent]
    IN  <<s0, s1, s2>>

\* The position add_blame_entry links e at: after the leading entries whose
\* lno is below e's.
RECURSIVE AddPosFrom(_, _, _)
AddPosFrom(list, e, k) ==
    IF k <= Len(list) /\ list[k].lno < e.lno
    THEN AddPosFrom(list, e, k + 1)
    ELSE k

AddPos(list, e) == AddPosFrom(list, e, 1)

\* A faulty add_blame_entry: e is linked at the head of the list.
add_blame_entry_at_head(list, e) == <<e>> \o list

add_blame_entry(list, e) ==
    LET k == AddPos(list, e)
    IN  SubSeq(list, 1, k - 1) \o <<e>> \o SubSeq(list, k, Len(list))

\* dup_entry(dst, src): dst takes src's fields, keeps its place in the list
\* and loses its cached score.
dup_entry(list, i, src) == [list EXCEPT ![i] = [src EXCEPT !.score = 0]]

\* The sanity loop at the end of split_blame.
RECURSIVE CorruptFrom(_, _, _)
CorruptFrom(list, k, lno) ==
    IF k > Len(list) THEN FALSE
    ELSE \/ lno # list[k].lno
         \/ list[k].s_lno < 0
         \/ CorruptFrom(list, k + 1, lno + list[k].num_lines)

Corrupt(list) == CorruptFrom(list, 1, list[1].lno)

\* One add_blame_entry during split_blame; `at` follows the entry being split,
\* which moves down the sequence when the new entry lands at or before it.
AddTrack(st, e) ==
    LET k == AddPos(st.ent, e)
    IN  [ent |-> add_blame_entry(st.ent, e),
         at |-> IF k <= st.at THEN st.at + 1 ELSE st.at]

\* split_blame on the entry at index i: the new list, where the entry that
\* was split is now, and whether the sanity check found the list corrupt
\* (the process then dies with "oops").
split_blame(list, split, i) ==
    LET pre == split[1].suspect # NoOrigin
        post == split[3].suspect # NoOrigin
        new == IF pre /\ post
               THEN AddTrack(AddTrack([ent |-> dup_entry(list, i, split[1]),
                                       at |-> i], split[3]), split[2])
               ELSE IF ~pre /\ ~post
               THEN [ent |-> dup_entry(list, i, split[2]), at |-> i]
               ELSE IF pre
               THEN AddTrack([ent |-> dup_entry(list, i, split[1]), at |-> i],
                             split[2])
               ELSE AddTrack([ent |-> dup_entry(list, i, split[2]), at |-> i],
                             split[3])
    IN  [ent |-> new.ent, at |-> new.at, oops |-> Corrupt(new.ent),
         split |-> TRUE]

\* A faulty coalesce: entries of one suspect are fused though the lines of the
\* suspect's file they name do not follow one another.
RECURSIVE CoalesceFromApart(_, _)
CoalesceFromApart(list, k) ==
    IF k >= Len(list) THEN list
    ELSE LET e == list[k]
             next == list[k + 1]
         IN  IF /\ cmp_suspect(e.suspect, next.suspect) = 0
                /\ e.guilty = next.guilty
             THEN CoalesceFromApart(
                      SubSeq(list, 1, k - 1)
                      \o <<[e EXCEPT !.num_lines = e.num_lines + next.num_lines,
                                     !.score = 0]>>
                      \o SubSeq(list, k + 2, Len(list)),
                      k)
             ELSE CoalesceFromApart(list, k + 1)

\* A faulty coalesce: a fused entry is not compared with its new neighbour.
RECURSIVE CoalesceFromOnce(_, _)
CoalesceFromOnce(list, k) ==
    IF k >= Len(list) THEN list
    ELSE LET e == list[k]
             next == list[k + 1]
         IN  IF /\ cmp_suspect(e.suspect, next.suspect) = 0
                /\ e.guilty = next.guilty
                /\ e.s_lno + e.num_lines = next.s_lno
             THEN CoalesceFromOnce(
                      SubSeq(list, 1, k - 1)
                      \o <<[e EXCEPT !.num_lines = e.num_lines + next.num_lines,
                                     !.score = 0]>>
                      \o SubSeq(list, k + 2, Len(list)),
                      k + 1)
             ELSE CoalesceFromOnce(list, k + 1)

\* coalesce, from the entry at index k on: a fused entry is compared again
\* with its new neighbour.
RECURSIVE CoalesceFrom(_, _)
CoalesceFrom(list, k) ==
    IF k >= Len(list) THEN list
    ELSE LET e == list[k]
             next == list[k + 1]
         IN  IF /\ cmp_suspect(e.suspect, next.suspect) = 0
                /\ e.guilty = next.guilty
                /\ e.s_lno + e.num_lines = next.s_lno
             THEN CoalesceFrom(
                      SubSeq(list, 1, k - 1)
                      \o <<[e EXCEPT !.num_lines = e.num_lines + next.num_lines,
                                     !.score = 0]>>
                      \o SubSeq(list, k + 2, Len(list)),
                      k)
             ELSE CoalesceFrom(list, k + 1)

\* A faulty coalesce: a fused entry keeps the score of its first part.
RECURSIVE CoalesceFromScored(_, _)
CoalesceFromScored(list, k) ==
    IF k >= Len(list) THEN list
    ELSE LET e == list[k]
             next == list[k + 1]
         IN  IF /\ cmp_suspect(e.suspect, next.suspect) = 0
                /\ e.guilty = next.guilty
                /\ e.s_lno + e.num_lines = next.s_lno
             THEN CoalesceFromScored(
                      SubSeq(list, 1, k - 1)
                      \o <<[e EXCEPT !.num_lines = e.num_lines + next.num_lines]>>
                      \o SubSeq(list, k + 2, Len(list)),
                      k)
             ELSE CoalesceFromScored(list, k + 1)

coalesce_scored(list) == CoalesceFromScored(list, 1)

coalesce(list) == CoalesceFrom(list, 1)

-----------------------------------------------------------------------------
(* The propagator *)

blame_overlap(list, i, tlno, plno, same, parent) ==
    LET split == split_overlap(list[i], tlno, plno, same, parent)
    IN  IF split[2].suspect = NoOrigin
        THEN [ent |-> list, at |-> i, oops |-> FALSE, split |-> FALSE]
        ELSE split_blame(list, split, i)

\* A faulty find_last_in_target: the end of the target's entry that ends
\* first, not of the one that ends last.
find_last_in_target_first(list, target) ==
    LET ends == {list[k].s_lno + list[k].num_lines :
                    k \in {j \in 1..Len(list) :
                              /\ ~list[j].guilty
                              /\ cmp_suspect(list[j].suspect, target) = 0}}
    IN  IF \E x \in ends : x > -1
        THEN CHOOSE x \in ends : \A y \in ends : x <= y
        ELSE -1

find_last_in_target(list, target) ==
    LET ends == {list[k].s_lno + list[k].num_lines :
                    k \in {j \in 1..Len(list) :
                              /\ ~list[j].guilty
                              /\ cmp_suspect(list[j].suspect, target) = 0}}
    IN  IF \E x \in ends : x > -1
        THEN CHOOSE x \in ends : \A y \in ends : y <= x
        ELSE -1

\* blame_chunk's loop, from the entry at index i on; st = [ent, oops, mid],
\* mid the lists split_blame has left on the way.
RECURSIVE BlameChunkFrom(_, _, _, _, _, _, _)
BlameChunkFrom(st, i, tlno, plno, same, target, parent) ==
    IF st.oops \/ i > Len(st.ent) THEN st
    ELSE LET e == st.ent[i]
         IN  IF e.guilty \/ cmp_suspect(e.suspect, target) # 0
             THEN BlameChunkFrom(st, i + 1, tlno, plno, same, target, parent)
             ELSE IF same <= e.s_lno
             THEN BlameChunkFrom(st, i + 1, tlno, plno, same, target, parent)
             ELSE IF tlno < e.s_lno + e.num_lines
             THEN LET r == blame_overlap(st.ent, i, tlno, plno, same, parent)
                  IN  BlameChunkFrom(
                          [ent |-> r.ent, oops |-> r.oops,
                           mid |-> IF r.split THEN st.mid \cup {r.ent}
                                   ELSE st.mid],
                          r.at + 1, tlno, plno, same, target, parent)
             ELSE BlameChunkFrom(st, i + 1, tlno, plno, same, target, parent)

blame_chunk(st, tlno, plno, same, target, parent) ==
    BlameChunkFrom(st, 1, tlno, plno, same, target, parent)

\* A faulty walk over the chunks: the parent's next line and the target's are
\* taken from each other's field.
RECURSIVE PassChunksFromSwapped(_, _, _, _, _, _, _, _)
PassChunksFromSwapped(st, patch, i, plno, tlno, last_in_target, target, parent) ==
    IF st.oops THEN st
    ELSE IF i > Len(patch)
    THEN blame_chunk(st, tlno, plno, last_in_target, target, parent)
    ELSE PassChunksFromSwapped(
             blame_chunk(st, tlno, plno, patch[i].same, target, parent),
             patch, i + 1, patch[i].t_next, patch[i].p_next,
             last_in_target, target, parent)

\* The loop of pass_blame_to_parent over patch->chunks, from chunk i on, and
\* the sweep of what follows the last chunk.
RECURSIVE PassChunksFrom(_, _, _, _, _, _, _, _)
PassChunksFrom(st, patch, i, plno, tlno, last_in_target, target, parent) ==
    IF st.oops THEN st
    ELSE IF i > Len(patch)
    THEN blame_chunk(st, tlno, plno, last_in_target, target, parent)
    ELSE PassChunksFrom(
             blame_chunk(st, tlno, plno, patch[i].same, target, parent),
             patch, i + 1, patch[i].p_next, patch[i].t_next,
             last_in_target, target, parent)

\* A faulty pass_blame_to_parent: the parent's lines are counted from 1.
pass_blame_to_parent_from_one(list, target, parent, patch) ==
    LET last_in_target == find_last_in_target(list, target)
    IN  IF last_in_target < 0
        THEN [ent |-> list, oops |-> FALSE, mid |-> {}, done |-> TRUE]
        ELSE LET r == PassChunksFrom(
                          [ent |-> list, oops |-> FALSE, mid |-> {}],
                          patch, 1, 1, 0, last_in_target, target, parent)
             IN  [ent |-> r.ent, oops |-> r.oops, mid |-> r.mid,
                  done |-> FALSE]

\* pass_blame_to_parent, given the patch get_patch(parent, target) returned:
\* done is the return value 1 (nothing remains for this target).
pass_blame_to_parent(list, target, parent, patch) ==
    LET last_in_target == find_last_in_target(list, target)
    IN  IF last_in_target < 0
        THEN [ent |-> list, oops |-> FALSE, mid |-> {}, done |-> TRUE]
        ELSE LET r == PassChunksFrom(
                          [ent |-> list, oops |-> FALSE, mid |-> {}],
                          patch, 1, 0, 0, last_in_target, target, parent)
             IN  [ent |-> r.ent, oops |-> r.oops, mid |-> r.mid,
                  done |-> FALSE]

-----------------------------------------------------------------------------
(* The textual differ (xdl_diff with XDF_NEED_MINIMAL) *)

\* The ways to pair lines of post with equal lines of pre, in order:
\* m[j] is the line of pre that line j of post is, or 0.
Alignments(pre, post) ==
    {m \in [1..Len(post) -> 0..Len(pre)] :
        /\ \A j \in 1..Len(post) : m[j] # 0 => pre[m[j]] = post[j]
        /\ \A j1, j2 \in 1..Len(post) :
              (j1 < j2 /\ m[j1] # 0 /\ m[j2] # 0) => m[j1] < m[j2]}

Matched(m) == Cardinality({j \in DOMAIN m : m[j] # 0})

\* A minimal diff keeps a longest common subsequence; which one, when there
\* are several, is the differ's choice.
MinimalDiffs(pre, post) ==
    LET all == Alignments(pre, post)
    IN  {m \in all : \A m2 \in all : Matched(m2) <= Matched(m)}

\* The edit script of an alignment: " " a common line, "-" a line of pre
\* only, "+" a line of post only; deletions come before insertions.
RECURSIVE EditScript(_, _, _, _, _)
EditScript(pre, post, m, i, j) ==
    IF i > Len(pre) /\ j > Len(post) THEN <<>>
    ELSE IF j <= Len(post) /\ i <= Len(pre) /\ m[j] = i
    THEN <<" ">> \o EditScript(pre, post, m, i + 1, j + 1)
    ELSE IF i <= Len(pre) /\ \A k \in DOMAIN m : m[k] # i
    THEN <<"-">> \o EditScript(pre, post, m, i + 1, j)
    ELSE <<"+">> \o EditScript(pre, post, m, i, j + 1)

CountKinds(script, from, to, kinds) ==
    Cardinality({k \in from..to : script[k] \in kinds})

\* The last change of the hunk that the change at k starts or continues:
\* changes no more than 2 * ctxlen common lines apart share a hunk.
RECURSIVE HunkLast(_, _, _)
HunkLast(script, k, ctxlen) ==
    LET later == {l \in (k + 1)..Len(script) : script[l] # " "}
    IN  IF later = {} THEN k
        ELSE LET l == CHOOSE x \in later : \A y \in later : x <= y
             IN  IF l - k - 1 > 2 * ctxlen THEN k
                 ELSE HunkLast(script, l, ctxlen)

UHeader(off1, len1, off2, len2) ==
    [k |-> "@", ok |-> TRUE,
     off1 |-> off1, len1 |-> len1, off2 |-> off2, len2 |-> len2]

ULine(kind) ==
    [k |-> kind, ok |-> TRUE, off1 |-> 0, len1 |-> 0, off2 |-> 0, len2 |-> 0]

\* The unified diff of an edit script from position `from` on: per hunk a
\* header "@@ -off1,len1 +off2,len2 @@" (an empty range is numbered by the
\* line before it) and the hunk's lines with their context.
RECURSIVE EmitHunks(_, _, _)
EmitHunks(script, from, ctxlen) ==
    LET changes == {k \in from..Len(script) : script[k] # " "}
    IN  IF changes = {} THEN <<>>
        ELSE LET first == CHOOSE x \in changes : \A y \in changes : x <= y
                 last == HunkLast(script, first, ctxlen)
                 s == Max(1, first - ctxlen)
                 e == Min(Len(script), last + ctxlen)
                 p0 == CountKinds(script, 1, s - 1, {" ", "-"})
                 t0 == CountKinds(script, 1, s - 1, {" ", "+"})
                 len1 == CountKinds(script, s, e, {" ", "-"})
                 len2 == CountKinds(script, s, e, {" ", "+"})
             IN  <<UHeader(IF len1 = 0 THEN p0 ELSE p0 + 1, len1,
                           IF len2 = 0 THEN t0 ELSE t0 + 1, len2)>>
                 \o [k \in 1..(e - s + 1) |-> ULine(script[s + k - 1])]
                 \o EmitHunks(script, last + 1, ctxlen)

xdl_diff(pre, post, m, ctxlen) ==
    EmitHunks(EditScript(pre, post, m, 1, 1), 1, ctxlen)

-----------------------------------------------------------------------------
(* The patch adapter *)

\* parse_hunk_header reads the four numbers of a header, or fails.
parse_hunk_header(line) == line.ok

\* process_u_diff: state = [chunks, hunk_post_context, hunk_in_pre_context].
process_u_diff(state, line) ==
    LET num == Len(state.chunks)
    IN  IF line.k # "@"
        THEN IF state.hunk_in_pre_context /\ line.k = " "
             THEN IF num = 0 THEN state
                  ELSE [state EXCEPT !.chunks[num].same = @ + 1]
             ELSE [state EXCEPT
                      !.hunk_in_pre_context = FALSE,
                      !.hunk_post_context =
                          IF line.k = " " THEN @ + 1 ELSE 0]
        ELSE LET adj == IF num # 0 /\ state.hunk_post_context # 0
                        THEN [state EXCEPT
                                 !.chunks[num].p_next =
                                     @ - state.hunk_post_context,
                                 !.chunks[num].t_next =
                                     @ - state.hunk_post_context]
                        ELSE state
                 off1 == line.off1 - 1
                 off2 == line.off2 - 1
                 same == IF line.len2 # 0 THEN off2 ELSE off2 + 1
             IN  IF ~parse_hunk_header(line) THEN adj
                 ELSE [chunks |-> Append(adj.chunks,
                          [same |-> same,
                           p_next |-> off1 + (IF line.len1 # 0
                                              THEN line.len1 ELSE 1),
                           t_next |-> same + line.len2]),
                       hunk_post_context |-> 0,
                       hunk_in_pre_context |-> TRUE]

RECURSIVE ConsumeFrom(_, _, _)
ConsumeFrom(state, udiff, k) ==
    IF k > Len(udiff) THEN state
    ELSE ConsumeFrom(process_u_diff(state, udiff[k]), udiff, k + 1)

\* A faulty compare_buffer: the context that trails the last hunk is left in
\* the last chunk.
compare_buffer_untrimmed(udiff) ==
    ConsumeFrom([chunks |-> <<>>, hunk_post_context |-> 0,
                 hunk_in_pre_context |-> FALSE], udiff, 1).chunks

\* compare_buffer, given the lines xdl_diff emits: the patch's chunks.
compare_buffer(udiff) ==
    LET state == ConsumeFrom([chunks |-> <<>>, hunk_post_context |-> 0,
                              hunk_in_pre_context |-> FALSE], udiff, 1)
        num == Len(state.chunks)
    IN  IF num # 0
        THEN [state.chunks EXCEPT
                 ![num].p_next = @ - state.hunk_post_context,
                 ![num].t_next = @ - state.hunk_post_context]
        ELSE state.chunks

-----------------------------------------------------------------------------
(* Scoring, and the search for moved and copied lines *)

RECURSIVE SumAlnum(_, _, _)
SumAlnum(buf, from, to) ==
    IF from > to THEN 0
    ELSE (IF from \in DOMAIN buf THEN Alnum[buf[from]] ELSE 0)
         + SumAlnum(buf, from + 1, to)

\* A faulty ent_score: the count is not started at one.
ent_score_from_zero(buf, e) ==
    IF e.score # 0 THEN e.score
    ELSE SumAlnum(buf, e.lno + 1, e.lno + e.num_lines)

\* ent_score: the cached score if there is one, else one more than the
\* alphanumeric bytes of lines lno .. lno + num_lines - 1 of the final file.
ent_score(buf, e) ==
    IF e.score # 0 THEN e.score
    ELSE 1 + SumAlnum(buf, e.lno + 1, e.lno + e.num_lines)

\* ent_score leaves the score it returns in e->score.
Scored(buf, e) == [e EXCEPT !.score = ent_score(buf, e)]

ZeroSplit == <<ZeroEntry, ZeroEntry, ZeroEntry>>

copy_split_if_better(buf, best_so_far, this) ==
    IF this[2].suspect = NoOrigin THEN best_so_far
    ELSE IF best_so_far[2].suspect # NoOrigin
    THEN IF ent_score(buf, this[2]) < ent_score(buf, best_so_far[2])
         THEN [best_so_far EXCEPT ![2] = Scored(buf, @)]
         ELSE [this EXCEPT ![2] = Scored(buf, @)]
    ELSE this

\* The text find_copy_in_blob compares with the parent's blob: the cnt =
\* num_lines lines of the final file from line lno on (to the end of the
\* file when cnt never reaches 0).
FileO(buf, e) ==
    IF e.num_lines >= 0
    THEN SubSeq(buf, e.lno + 1, Min(Len(buf), e.lno + e.num_lines))
    ELSE SubSeq(buf, e.lno + 1, Len(buf))

\* A faulty find_copy_in_blob: the region is not moved from file_o's line
\* numbers to the entry's.
RECURSIVE CopyChunksFromUnshifted(_, _, _, _, _, _, _, _)
CopyChunksFromUnshifted(buf, split, patch, i, plno, tlno, e, parent) ==
    IF i > Len(patch) \/ e.num_lines <= tlno THEN split
    ELSE CopyChunksFromUnshifted(
             buf,
             IF tlno < patch[i].same
             THEN copy_split_if_better(buf, split,
                      split_overlap(e, tlno, plno, patch[i].same, parent))
             ELSE split,
             patch, i + 1, patch[i].p_next, patch[i].t_next, e, parent)

\* The loop of find_copy_in_blob over patch->chunks, from chunk i on.
RECURSIVE CopyChunksFrom(_, _, _, _, _, _, _, _)
CopyChunksFrom(buf, split, patch, i, plno, tlno, e, parent) ==
    IF i > Len(patch) \/ e.num_lines <= tlno THEN split
    ELSE CopyChunksFrom(
             buf,
             IF tlno < patch[i].same
             THEN copy_split_if_better(buf, split,
                      split_overlap(e, tlno + e.s_lno, plno,
                                    patch[i].same + e.s_lno, parent))
             ELSE split,
             patch, i + 1, patch[i].p_next, patch[i].t_next, e, parent)

\* find_copy_in_blob, given the patch compare_buffer(file_p, file_o, 1) made.
find_copy_in_blob(buf, e, parent, patch) ==
    CopyChunksFrom(buf, ZeroSplit, patch, 1, 0, 0, e, parent)

\* The splits find_copy_in_blob can return, one per minimal diff.
CopySplits(buf, e, parent, file_p) ==
    {find_copy_in_blob(buf, e, parent,
                       compare_buffer(xdl_diff(file_p, FileO(buf, e), m, 1))) :
        m \in MinimalDiffs(file_p, FileO(buf, e))}

\* A faulty test of the score: a split that only reaches its threshold is
\* applied as well.
ApplySplitAtThreshold(st, buf, split, i, threshold) ==
    IF split[2].suspect # NoOrigin /\ threshold <= ent_score(buf, split[2])
    THEN LET r == split_blame(st.ent, [split EXCEPT ![2] = Scored(buf, @)], i)
         IN  [st |-> [ent |-> r.ent, oops |-> r.oops,
                      mid |-> st.mid \cup {r.ent}],
              next |-> r.at + 1]
    ELSE [st |-> st, next |-> i + 1]

\* A split that passes its threshold is applied; st = [ent, oops, mid], mid
\* the lists split_blame has left on the way.
ApplySplit(st, buf, split, i, threshold) ==
    IF split[2].suspect # NoOrigin /\ threshold < ent_score(buf, split[2])
    THEN LET r == split_blame(st.ent, [split EXCEPT ![2] = Scored(buf, @)], i)
         IN  [st |-> [ent |-> r.ent, oops |-> r.oops,
                      mid |-> st.mid \cup {r.ent}],
              next |-> r.at + 1]
    ELSE [st |-> st, next |-> i + 1]

\* The loop of find_move_in_parent over the entries, from index i on: the
\* set of outcomes, one per choice of the differ.
RECURSIVE FindMoveFrom(_, _, _, _, _, _, _)
FindMoveFrom(st, i, buf, target, parent, file_p, threshold) ==
    IF st.oops \/ i > Len(st.ent) THEN {st}
    ELSE LET e == st.ent[i]
         IN  IF e.guilty \/ cmp_suspect(e.suspect, target) # 0
             THEN FindMoveFrom(st, i + 1, buf, target, parent, file_p,
                               threshold)
             ELSE UNION {
                      LET a == ApplySplit(st, buf, split, i, threshold)
                      IN  FindMoveFrom(a.st, a.next, buf, target, parent,
                                       file_p, threshold) :
                      split \in CopySplits(buf, e, parent, file_p)}

\* The loop of find_copy_in_parent over the queued file pairs, from pair k
\* on: the best splits it can end with.  cands[k] = [origin, blob] is the
\* parent's side of pair k.
RECURSIVE BestCopyFrom(_, _, _, _, _)
BestCopyFrom(buf, e, cands, k, split) ==
    IF k > Len(cands) THEN {split}
    ELSE UNION {BestCopyFrom(buf, e, cands, k + 1,
                             copy_split_if_better(buf, split, this)) :
                   this \in CopySplits(buf, e, cands[k].origin, cands[k].blob)}

\* The loop of find_copy_in_parent over the entries, from index i on.
RECURSIVE FindCopyFrom(_, _, _, _, _, _)
FindCopyFrom(st, i, buf, target, cands, threshold) ==
    IF st.oops \/ i > Len(st.ent) THEN {st}
    ELSE LET e == st.ent[i]
         IN  IF e.guilty \/ cmp_suspect(e.suspect, target) # 0
             THEN FindCopyFrom(st, i + 1, buf, target, cands, threshold)
             ELSE UNION {
                      LET a == ApplySplit(st, buf, split, i, threshold)
                      IN  FindCopyFrom(a.st, a.next, buf, target, cands,
                                       threshold) :
                      split \in BestCopyFrom(buf, e, cands, 1, ZeroSplit)}

-----------------------------------------------------------------------------
(* The repository: object store, commit graph, tree differ, command line *)

Commits == {"c1", "c2", "c3"}

SortedPaths == <<"f", "g">>

Paths == {SortedPaths[k] : k \in DOMAIN SortedPaths}

Origin(commit, path) == [commit |-> commit, path |-> path]

Blob(o) == repo.blob[o.commit][o.path]

\* find_origin: the origin of path in commit, NoOrigin when the commit's tree
\* has no blob there.
find_origin(commit, path) ==
    IF repo.blob[commit][path] # NoBlob THEN Origin(commit, path) ELSE NoOrigin

\* The rename detection of the tree differ: two blobs pair up when they are
\* equal or share at least half of their lines.
Similar(a, b) ==
    \/ a = b
    \/ /\ a # <<>> /\ b # <<>>
       /\ \E m \in MinimalDiffs(a, b) : 2 * Matched(m) >= Max(Len(a), Len(b))

\* A faulty find_rename: the origin is looked up under the path the file has
\* in origin's commit, not the one it has in parent.
find_rename_one_path(parent, origin) ==
    LET from == SelectSeq(SortedPaths,
                    LAMBDA q : /\ repo.blob[parent][q] # NoBlob
                               /\ repo.blob[origin.commit][q] = NoBlob
                               /\ repo.blob[parent][origin.path] = NoBlob
                               /\ Similar(Blob(origin), repo.blob[parent][q]))
    IN  IF from = <<>> THEN NoOrigin ELSE find_origin(parent, origin.path)

\* find_rename: the tree diff from origin's commit to parent, with rename
\* detection; the first pair that renames origin->path names the path the
\* file has in parent.
find_rename(parent, origin) ==
    LET from == SelectSeq(SortedPaths,
                    LAMBDA q : /\ repo.blob[parent][q] # NoBlob
                               /\ repo.blob[origin.commit][q] = NoBlob
                               /\ repo.blob[parent][origin.path] = NoBlob
                               /\ Similar(Blob(origin), repo.blob[parent][q]))
    IN  IF from = <<>> THEN NoOrigin ELSE find_origin(parent, from[1])

\* The parent's side of the file pairs find_copy_in_parent walks: the tree
\* diff from parent to target's commit queues the paths that changed or went
\* away, and with "find copies harder" also the parent's files that a file
\* new in target's commit is similar to; the path find_move_in_parent dealt
\* with is skipped.
CopyCandidates(target, parent, porigin) ==
    LET child == target.commit
        harder == /\ "COPY_HARDER" \in repo.opt
                  /\ (porigin = NoOrigin \/ target.path # porigin.path)
        Queued(q) ==
            /\ repo.blob[parent][q] # NoBlob
            /\ \/ repo.blob[child][q] # repo.blob[parent][q]
               \/ /\ harder
                  /\ \E r \in Paths :
                        /\ repo.blob[child][r] # NoBlob
                        /\ repo.blob[parent][r] = NoBlob
                        /\ Similar(repo.blob[parent][q], repo.blob[child][r])
            /\ ~(porigin # NoOrigin /\ q = porigin.path)
        paths == SelectSeq(SortedPaths, Queued)
    IN  [k \in DOMAIN paths |->
            [origin |-> find_origin(parent, paths[k]),
             blob |-> repo.blob[parent][paths[k]]]]

blame_move_score ==
    IF repo.move_arg = 0 THEN BLAME_DEFAULT_MOVE_SCORE ELSE repo.move_arg

blame_copy_score ==
    IF repo.copy_arg = 0 THEN BLAME_DEFAULT_COPY_SCORE ELSE repo.copy_arg

final_buf == repo.blob[repo.final][repo.path]

Parents(commit) ==
    SubSeq(repo.parents[commit], 1, Min(MAXPARENT, Len(repo.parents[commit])))

-----------------------------------------------------------------------------
(* cmd_pickaxe and assign_blame *)

Die(why) ==
    /\ pc' = "dead"
    /\ fatal' = why
    /\ UNCHANGED <<repo, ent, suspect, parent_origin, pidx, arg, res>>
    /\ mid' = {}

\* The -L numbers after option parsing: given the wrong way round, they are
\* swapped.
LBottom ==
    IF repo.L[1] # 0 /\ repo.L[2] # 0 /\ repo.L[2] < repo.L[1]
    THEN repo.L[2] ELSE repo.L[1]

LTop ==
    IF repo.L[1] # 0 /\ repo.L[2] # 0 /\ repo.L[2] < repo.L[1]
    THEN repo.L[1] ELSE repo.L[2]

\* cmd_pickaxe's bottom and top once the defaults are in: the range of the
\* final file to blame is lines bottom .. top - 1, counted from 0.
RangeBottom == (IF LBottom < 1 THEN 1 ELSE LBottom) - 1

RangeTop == IF LTop < 1 THEN Len(final_buf) ELSE LTop

\* A faulty start: the first entry names the lines of the file from its
\* first line, whatever line the range starts at.
StartFromZero ==
    /\ pc = "start"
    /\ IF final_buf = NoBlob THEN Die("no such path")
       ELSE IF Len(final_buf) < RangeTop THEN Die("file has only lno lines")
       ELSE /\ ent' = <<[ZeroEntry EXCEPT
                           !.lno = RangeBottom,
                           !.num_lines = RangeTop - RangeBottom,
                           !.suspect = Origin(repo.final, repo.path)]>>
            /\ pc' = "assign"
            /\ mid' = {}
            /\ UNCHANGED <<repo, suspect, parent_origin, pidx, fatal,
                           arg, res>>

\* cmd_pickaxe from prepare_lines to the call of assign_blame: the first
\* entry covers the lines -L asks for.
Start ==
    /\ pc = "start"
    /\ IF final_buf = NoBlob THEN Die("no such path")
       ELSE IF Len(final_buf) < RangeTop THEN Die("file has only lno lines")
       ELSE /\ ent' = <<[ZeroEntry EXCEPT
                           !.lno = RangeBottom,
                           !.num_lines = RangeTop - RangeBottom,
                           !.suspect = Origin(repo.final, repo.path),
                           !.s_lno = RangeBottom]>>
            /\ pc' = "assign"
            /\ mid' = {}
            /\ UNCHANGED <<repo, suspect, parent_origin, pidx, fatal,
                           arg, res>>

\* A faulty search for a suspect: only the head of the list is looked at.
UnresolvedHead(list) == {k \in {1} \cap (1..Len(list)) : ~list[k].guilty}

\* The entries assign_blame still has to break down.
Unresolved(list) == {k \in 1..Len(list) : ~list[k].guilty}

\* A faulty order of the parents: the propagator and the mover start at the
\* last parent that has an origin.
RECURSIVE PassBlameNextLast(_, _, _, _)
PassBlameNextLast(phase, from, porigins, nparents) ==
    LET with == {i \in from..nparents : porigins[i] # NoOrigin}
        last == CHOOSE i \in with : \A j \in with : j <= i
    IN  IF phase = "propagate"
        THEN IF with # {} THEN [pc |-> "propagate", pidx |-> last]
             ELSE PassBlameNextLast("move", 1, porigins, nparents)
        ELSE IF phase = "move"
        THEN IF "MOVE" \in repo.opt /\ with # {}
             THEN [pc |-> "move", pidx |-> last]
             ELSE PassBlameNextLast("copy", 1, porigins, nparents)
        ELSE IF "COPY" \in repo.opt /\ from <= nparents
             THEN [pc |-> "copy", pidx |-> from]
             ELSE [pc |-> "take", pidx |-> 0]

\* What pass_blame does next, from loop `phase` at parent index `from`: the
\* propagator for each parent that has an origin, then the mover for each,
\* then the copier for every parent, then back in assign_blame.
RECURSIVE PassBlameNext(_, _, _, _)
PassBlameNext(phase, from, porigins, nparents) ==
    LET with == {i \in from..nparents : porigins[i] # NoOrigin}
        first == CHOOSE i \in with : \A j \in with : i <= j
    IN  IF phase = "propagate"
        THEN IF with # {} THEN [pc |-> "propagate", pidx |-> first]
             ELSE PassBlameNext("move", 1, porigins, nparents)
        ELSE IF phase = "move"
        THEN IF "MOVE" \in repo.opt /\ with # {}
             THEN [pc |-> "move", pidx |-> first]
             ELSE PassBlameNext("copy", 1, porigins, nparents)
        ELSE IF "COPY" \in repo.opt /\ from <= nparents
             THEN [pc |-> "copy", pidx |-> from]
             ELSE [pc |-> "take", pidx |-> 0]

\* A faulty head of the loop: pass_blame is called for every suspect, an
\* uninteresting or old one as well.
PickSuspectPastBoundary ==
    /\ pc = "assign"
    /\ mid' = {}
    /\ UNCHANGED <<repo, ent, parent_origin, pidx, fatal, arg, res>>
    /\ IF Unresolved(ent) = {}
       THEN pc' = "done" /\ UNCHANGED suspect
       ELSE LET k == CHOOSE i \in Unresolved(ent) :
                        \A j \in Unresolved(ent) : i <= j
            IN  /\ suspect' = ent[k].suspect
                /\ pc' = "pass_blame"

\* assign_blame, the head of the loop: the first unresolved entry's suspect
\* is the one to break down; pass_blame is skipped for a commit that is
\* uninteresting or older than max_age.
PickSuspect ==
    /\ pc = "assign"
    /\ mid' = {}
    /\ UNCHANGED <<repo, ent, parent_origin, pidx, fatal, arg, res>>
    /\ IF Unresolved(ent) = {}
       THEN pc' = "done" /\ UNCHANGED suspect
       ELSE LET k == CHOOSE i \in Unresolved(ent) :
                        \A j \in Unresolved(ent) : i <= j
                s == ent[k].suspect
            IN  /\ suspect' = s
                /\ pc' = IF /\ s.commit \notin repo.uninteresting
                            /\ s.commit \notin repo.old
                         THEN "pass_blame" ELSE "take"

\* pass_blame, the first loop: the origin each parent has for the file, by
\* path or by rename.
ParentOrigin(p, origin) ==
    LET porigin == find_origin(p, origin.path)
    IN  IF porigin # NoOrigin THEN porigin ELSE find_rename(p, origin)

\* A faulty hand-over: every entry of the list goes to porigin.
RepointAll(list, origin, porigin) ==
    [k \in DOMAIN list |-> [list[k] EXCEPT !.suspect = porigin]]

\* The entries of suspect `origin` are handed to porigin as they are.
Repoint(list, origin, porigin) ==
    [k \in DOMAIN list |->
        IF list[k].suspect = origin
        THEN [list[k] EXCEPT !.suspect = porigin]
        ELSE list[k]]

ResolveParents ==
    /\ pc = "pass_blame"
    /\ mid' = {}
    /\ UNCHANGED <<repo, suspect, fatal, arg, res>>
    /\ LET ps == Parents(suspect.commit)
           po == [i \in DOMAIN ps |-> ParentOrigin(ps[i], suspect)]
           same == {i \in DOMAIN ps :
                       po[i] # NoOrigin /\ Blob(po[i]) = Blob(suspect)}
       IN  IF same # {}
           THEN /\ ent' = Repoint(ent, suspect,
                              po[CHOOSE i \in same : \A j \in same : i <= j])
                /\ pc' = "take"
                /\ UNCHANGED <<parent_origin, pidx>>
           ELSE LET n == PassBlameNext("propagate", 1, po, Len(ps))
                IN  /\ parent_origin' = po
                    /\ pc' = n.pc
                    /\ pidx' = n.pidx
                    /\ UNCHANGED ent

\* Where a step of pass_blame that left `r` goes.
Continue(r, phase) ==
    /\ ent' = r.ent
    /\ mid' = r.mid
    /\ UNCHANGED <<repo, suspect, parent_origin, arg, res>>
    /\ IF r.oops
       THEN pc' = "dead" /\ fatal' = "oops" /\ UNCHANGED pidx
       ELSE LET n == PassBlameNext(phase, pidx + 1, parent_origin,
                                   Len(parent_origin))
            IN  pc' = n.pc /\ pidx' = n.pidx /\ UNCHANGED fatal

\* A step of pass_blame returned 1: nothing remains for this target.
NothingRemains ==
    /\ pc' = "take"
    /\ mid' = {}
    /\ UNCHANGED <<repo, ent, suspect, parent_origin, pidx, fatal, arg, res>>

\* What pass_blame_to_parent can leave for parent pidx: one outcome for each
\* minimal diff between the parent's blob and the suspect's.
PassBlameToParentOutcomes ==
    {pass_blame_to_parent(ent, suspect, parent_origin[pidx],
         compare_buffer(xdl_diff(Blob(parent_origin[pidx]), Blob(suspect),
                                 m, 0))) :
        m \in MinimalDiffs(Blob(parent_origin[pidx]), Blob(suspect))}

\* pass_blame, the second loop: pass_blame_to_parent for parent pidx.
PassBlameToParent ==
    /\ pc = "propagate"
    /\ IF find_last_in_target(ent, suspect) < 0 THEN NothingRemains
       ELSE \E r \in PassBlameToParentOutcomes : Continue(r, "propagate")

\* pass_blame, the third loop: find_move_in_parent for parent pidx.
FindMoveInParent ==
    /\ pc = "move"
    /\ IF find_last_in_target(ent, suspect) < 0 THEN NothingRemains
       ELSE \E r \in FindMoveFrom([ent |-> ent, oops |-> FALSE, mid |-> {}], 1,
                                  final_buf, suspect, parent_origin[pidx],
                                  Blob(parent_origin[pidx]), blame_move_score) :
               Continue(r, "move")

\* pass_blame, the fourth loop: find_copy_in_parent for parent pidx.
FindCopyInParent ==
    /\ pc = "copy"
    /\ IF find_last_in_target(ent, suspect) < 0 THEN NothingRemains
       ELSE \E r \in FindCopyFrom([ent |-> ent, oops |-> FALSE, mid |-> {}], 1,
                                  final_buf, suspect,
                                  CopyCandidates(suspect,
                                      Parents(suspect.commit)[pidx],
                                      parent_origin[pidx]),
                                  blame_copy_score) :
               Continue(r, "copy")

\* A faulty end of the iteration: nobody takes responsibility.
TakeNothing ==
    /\ pc = "take"
    /\ pc' = "coalesce"
    /\ mid' = {}
    /\ parent_origin' = <<>>
    /\ pidx' = 0
    /\ UNCHANGED <<repo, ent, suspect, fatal, arg, res>>

\* assign_blame: the suspect takes responsibility for what it still holds.
TakeResponsibility ==
    /\ pc = "take"
    /\ ent' = [k \in DOMAIN ent |->
                  IF cmp_suspect(ent[k].suspect, suspect) = 0
                  THEN [ent[k] EXCEPT !.guilty = TRUE]
                  ELSE ent[k]]
    /\ pc' = "coalesce"
    /\ mid' = {}
    /\ parent_origin' = <<>>
    /\ pidx' = 0
    /\ UNCHANGED <<repo, suspect, fatal, arg, res>>

\* assign_blame: the coalesce that ends an iteration.
Coalesce ==
    /\ pc = "coalesce"
    /\ ent' = coalesce(ent)
    /\ pc' = "assign"
    /\ mid' = {}
    /\ suspect' = NoOrigin
    /\ UNCHANGED <<repo, parent_origin, pidx, fatal, arg, res>>

\* cmd_pickaxe: the coalesce after assign_blame has returned.
FinalCoalesce ==
    /\ pc = "done"
    /\ ent' = coalesce(ent)
    /\ pc' = "output"
    /\ mid' = {}
    /\ UNCHANGED <<repo, suspect, parent_origin, pidx, fatal, arg, res>>

Next ==
    \/ Start
    \/ PickSuspect
    \/ ResolveParents
    \/ PassBlameToParent
    \/ FindMoveInParent
    \/ FindCopyInParent
    \/ TakeResponsibility
    \/ Coalesce
    \/ FinalCoalesce

-----------------------------------------------------------------------------
(* The repositories and command lines the model runs on *)

Seqs(S, n) == UNION {[1..k -> S] : k \in 0..n}

BaseRepo ==
    [final |-> "c3", path |-> "f",
     parents |-> [c \in Commits |-> <<>>],
     blob |-> [c \in Commits |-> [q \in Paths |-> NoBlob]],
     uninteresting |-> {}, old |-> {},
     opt |-> {}, move_arg |-> 0, copy_arg |-> 0,
     L |-> <<0, 0>>]

\* Files of at most n lines over two lines of text.
Files(n) == Seqs({"a", "b"}, n)

MaybeFiles(n) == Files(n) \cup {NoBlob}

ShortLines == MaxLines - 1

\* c3 on top of c2, one path, without and with -M.
Linear(r) ==
    \E x \in Files(MaxLines), y \in MaybeFiles(MaxLines),
       o \in {{}, {"MOVE"}} :
        r = [BaseRepo EXCEPT !.parents["c3"] = <<"c2">>,
                             !.blob["c3"]["f"] = x, !.blob["c2"]["f"] = y,
                             !.opt = o]

\* The same history under every -L n,m (0 stands for a number not given).
Ranges(r) ==
    \E x \in Seqs({"a"}, MaxLines), y \in Files(ShortLines),
       n \in -1..(MaxLines + 1), m \in -1..(MaxLines + 1) :
        r = [BaseRepo EXCEPT !.parents["c3"] = <<"c2">>,
                             !.blob["c3"]["f"] = x, !.blob["c2"]["f"] = y,
                             !.L = <<n, m>>]

\* Three commits: a chain, and merges of c2 and c1 in both orders; on the
\* chain also with c2 marked uninteresting and with c1 older than max_age.
Shapes ==
    {[p |-> [c3 |-> <<"c2">>, c2 |-> <<"c1">>, c1 |-> <<>>], u |-> u, o |-> o] :
        <<u, o>> \in {<<{}, {}>>, <<{"c2"}, {}>>, <<{}, {"c1"}>>}}
    \cup
    {[p |-> [c3 |-> q, c2 |-> r, c1 |-> <<>>], u |-> {}, o |-> {}] :
        <<q, r>> \in {<<<<"c2", "c1">>, <<"c1">>>>,
                      <<<<"c1", "c2">>, <<"c1">>>>,
                      <<<<"c2", "c1">>, <<>>>>}}

Graphs(r) ==
    \E sh \in Shapes, x \in Files(ShortLines), y \in MaybeFiles(ShortLines),
       z \in MaybeFiles(ShortLines) :
        r = [BaseRepo EXCEPT !.parents = sh.p,
                             !.uninteresting = sh.u, !.old = sh.o,
                             !.blob["c3"]["f"] = x, !.blob["c2"]["f"] = y,
                             !.blob["c1"]["f"] = z]

\* Two paths: c2 holds g, which c3 keeps or drops, under -C and -C -C.
TwoPaths(r) ==
    \E x \in Files(ShortLines), y \in MaybeFiles(ShortLines),
       z \in MaybeFiles(ShortLines), keep \in BOOLEAN,
       o \in {{"MOVE", "COPY"}, {"MOVE", "COPY", "COPY_HARDER"}} :
        r = [BaseRepo EXCEPT !.parents["c3"] = <<"c2">>,
                             !.blob["c3"]["f"] = x, !.blob["c2"]["f"] = y,
                             !.blob["c2"]["g"] = z,
                             !.blob["c3"]["g"] = IF keep THEN z ELSE NoBlob,
                             !.opt = o]

\* Two commits, the later one having put a block of punctuation lines into
\* the earlier one's file, in the middle or at either end.
Insertions(r) ==
    \E pre \in Files(1), post \in Files(1), k \in 1..(MaxLines - 2) :
        r = [BaseRepo EXCEPT
                !.parents["c3"] = <<"c2">>,
                !.blob["c2"]["f"] = pre \o post,
                !.blob["c3"]["f"] = pre \o [j \in 1..k |-> "c"] \o post]

\* A commit without parents, under every -L n,m, without and with -C.
Roots(r) ==
    \E x \in Files(MaxLines), n \in 0..MaxLines, m \in 0..MaxLines,
       o \in {{}, {"MOVE", "COPY"}} :
        r = [BaseRepo EXCEPT !.blob["c3"]["f"] = x, !.L = <<n, m>>, !.opt = o]

\* c3 has f where its parent c2 has g and no f, and no options are given.
Renames(r) ==
    \E x \in Files(MaxLines), z \in Files(MaxLines) :
        r = [BaseRepo EXCEPT !.parents["c3"] = <<"c2">>,
                             !.blob["c3"]["f"] = x, !.blob["c2"]["g"] = z]

\* The orders three different lines can be in.
Orders ==
    {p \in [1..3 -> {"a", "b", "c"}] : \A i, j \in 1..3 : p[i] = p[j] => i = j}

\* c3 has the three lines of its parent's file in another order, without and
\* with -M.
Reorders(r) ==
    \E p \in Orders, q \in Orders, o \in {{}, {"MOVE"}} :
        r = [BaseRepo EXCEPT !.parents["c3"] = <<"c2">>,
                             !.blob["c2"]["f"] = p, !.blob["c3"]["f"] = q,
                             !.opt = o]

\* Histories cut by a boundary: the chain with c2 older than max_age, the
\* chain with the final commit itself uninteresting, and the merge of c2 and
\* c1 with c2 and its ancestor c1 uninteresting.
Cuts ==
    {[p |-> [c3 |-> <<"c2">>, c2 |-> <<"c1">>, c1 |-> <<>>],
      u |-> {}, o |-> {"c2"}],
     [p |-> [c3 |-> <<"c2">>, c2 |-> <<"c1">>, c1 |-> <<>>],
      u |-> {"c3"}, o |-> {}],
     [p |-> [c3 |-> <<"c2", "c1">>, c2 |-> <<"c1">>, c1 |-> <<>>],
      u |-> {"c2", "c1"}, o |-> {}]}

Boundaries(r) ==
    \E sh \in Cuts, x \in Files(ShortLines), y \in MaybeFiles(ShortLines),
       z \in MaybeFiles(1) :
        r = [BaseRepo EXCEPT !.parents = sh.p,
                             !.uninteresting = sh.u, !.old = sh.o,
                             !.blob["c3"]["f"] = x, !.blob["c2"]["f"] = y,
                             !.blob["c1"]["f"] = z]

\* -C with a score: c2 holds f and g, c3 has dropped g, and the copier is
\* given a threshold that one line of text may pass.
Scores(r) ==
    \E x \in Files(ShortLines), y \in MaybeFiles(1), z \in Files(ShortLines),
       n \in {BLAME_DEFAULT_MOVE_SCORE, 1 + Alnum["a"]} :
        r = [BaseRepo EXCEPT !.parents["c3"] = <<"c2">>,
                             !.blob["c3"]["f"] = x, !.blob["c2"]["f"] = y,
                             !.blob["c2"]["g"] = z,
                             !.opt = {"MOVE", "COPY"}, !.copy_arg = n]

\* A merge of two roots under -M -C: c3 has c2 and c1 as parents, in either
\* order, and each of them has the file or not.
Merges(r) ==
    \E x \in Files(ShortLines), y \in MaybeFiles(1), z \in MaybeFiles(1),
       q \in {<<"c2", "c1">>, <<"c1", "c2">>} :
        r = [BaseRepo EXCEPT !.parents["c3"] = q,
                             !.blob["c3"]["f"] = x, !.blob["c2"]["f"] = y,
                             !.blob["c1"]["f"] = z,
                             !.opt = {"MOVE", "COPY"}]

Repos(r) ==
    \/ Linear(r) \/ Ranges(r) \/ Graphs(r) \/ TwoPaths(r) \/ Insertions(r)
    \/ Roots(r) \/ Renames(r) \/ Reorders(r) \/ Boundaries(r) \/ Scores(r)
    \/ Merges(r)

Init ==
    /\ Repos(repo)
    /\ ent = <<>>
    /\ pc = "start"
    /\ suspect = NoOrigin
    /\ parent_origin = <<>>
    /\ pidx = 0
    /\ fatal = ""
    /\ mid = {}
    /\ arg = <<>>
    /\ res = <<>>

Spec == Init /\ [][Next]_vars

\* The process runs on until it exits.  A step of pass_blame over a parent
\* has an outcome for every list, so it is enabled exactly when the command
\* is at it: its weak fairness is written with that guard in place of
\* ENABLED.
FairSpec ==
    /\ Spec
    /\ WF_vars(Start)
    /\ WF_vars(PickSuspect)
    /\ WF_vars(ResolveParents)
    /\ WF_vars(TakeResponsibility)
    /\ WF_vars(Coalesce)
    /\ WF_vars(FinalCoalesce)
    /\ ([]<>(pc # "propagate") \/ []<><<PassBlameToParent>>_vars)
    /\ ([]<>(pc # "move") \/ []<><<FindMoveInParent>>_vars)
    /\ ([]<>(pc # "copy") \/ []<><<FindCopyInParent>>_vars)

-----------------------------------------------------------------------------
(* split_overlap, ent_score and coalesce on their own *)

UnitParent == Origin("c2", "f")

UnitTarget == Origin("c3", "f")

\* An entry of buf's file that names lines s_lno.. of its suspect, and a
\* region [tlno, same) of the suspect's lines that overlaps them; the entry's
\* score is not yet known, or is the one ent_score has left in it.
OverlapArgs(a) ==
    \E buf \in Seqs({"a", "c"}, MaxLines), lno \in 0..(MaxLines - 1),
       n \in 1..MaxLines, s \in 0..1, tlno \in 0..MaxLines,
       same \in 1..(MaxLines + 2), plno \in 0..1, cached \in BOOLEAN :
        /\ lno + n <= Len(buf)
        /\ tlno <= same /\ tlno < s + n /\ s < same /\ same <= s + n + 1
        /\ a = [kind |-> "overlap", buf |-> buf,
                e |-> [ZeroEntry EXCEPT
                          !.lno = lno, !.num_lines = n, !.s_lno = s,
                          !.suspect = UnitTarget,
                          !.score = IF cached
                                    THEN 1 + SumAlnum(buf, lno + 1, lno + n)
                                    ELSE 0],
                tlno |-> tlno, plno |-> plno, same |-> same]

\* A list of one-line entries that tiles lines 0 .. n - 1, each blamed on
\* one of two suspects for some line of it, guilty or not; the scores are
\* not yet known, or are the ones ent_score has left, each line an "a".
ListArgs(a) ==
    \E n \in 1..MaxLines, cached \in BOOLEAN :
        \E f \in [1..n -> [suspect : {UnitTarget, UnitParent},
                           guilty : BOOLEAN, s_lno : 0..(MaxLines - 1)]] :
            a = [kind |-> "list",
                 list |-> [k \in 1..n |->
                              [ZeroEntry EXCEPT
                                  !.lno = k - 1, !.num_lines = 1,
                                  !.suspect = f[k].suspect,
                                  !.guilty = f[k].guilty,
                                  !.s_lno = f[k].s_lno,
                                  !.score = IF cached THEN 1 + Alnum["a"]
                                            ELSE 0]]]

\* The number of hunk headers among the lines of a unified diff.
NumHunks(udiff) == Cardinality({k \in DOMAIN udiff : udiff[k].k = "@"})

\* The diff with the header of its hunk number `bad` made one that
\* parse_hunk_header fails on; bad = 0 leaves every header as it is.
BadHeader(udiff, bad) ==
    [k \in DOMAIN udiff |->
        IF /\ udiff[k].k = "@"
           /\ NumHunks(SubSeq(udiff, 1, k)) = bad
        THEN [udiff[k] EXCEPT !.ok = FALSE]
        ELSE udiff[k]]

\* Two files, one of the differ's minimal diffs of them, the width of the
\* context, and the hunk whose header is spoilt, if one is.
DiffArgs(a) ==
    \E pre \in Files(MaxLines), post \in Files(MaxLines), ctxlen \in 0..1 :
        \E m \in MinimalDiffs(pre, post) :
            \E bad \in 0..NumHunks(xdl_diff(pre, post, m, ctxlen)) :
                a = [kind |-> "diff", pre |-> pre, post |-> post, m |-> m,
                     ctxlen |-> ctxlen, bad |-> bad]

UnitOther == Origin("c1", "f")

\* The list of a final file that is `shift` lines, blamed for good on
\* another commit, followed by the target's file post: the target's first
\* `cut` lines are an unresolved entry of the target, the rest an entry that
\* is the target's and unresolved, the target's and guilty, or the parent's.
PassList(post, shift, cut, tail) ==
    (IF shift = 0 THEN <<>>
     ELSE <<[ZeroEntry EXCEPT !.lno = 0, !.num_lines = shift,
                              !.suspect = UnitOther, !.guilty = TRUE]>>)
    \o (IF cut = 0 THEN <<>>
        ELSE <<[ZeroEntry EXCEPT !.lno = shift, !.num_lines = cut,
                                 !.suspect = UnitTarget]>>)
    \o (IF cut = Len(post) THEN <<>>
        ELSE <<[ZeroEntry EXCEPT
                   !.lno = shift + cut, !.num_lines = Len(post) - cut,
                   !.s_lno = cut,
                   !.suspect = IF tail = "parent" THEN UnitParent
                               ELSE UnitTarget,
                   !.guilty = (tail = "guilty")]>>)

\* The parent's file, the target's, one of their minimal diffs, and a list
\* in which the target is blamed for lines of its file.
PassArgs(a) ==
    \E pre \in Files(MaxLines), post \in Files(MaxLines), shift \in 0..1,
       tail \in {"target", "guilty", "parent"} :
        \E m \in MinimalDiffs(pre, post), cut \in 0..Len(post) :
            a = [kind |-> "pass", pre |-> pre, post |-> post, m |-> m,
                 list |-> PassList(post, shift, cut, tail)]

\* The scores -M and -C are tried with: the two defaults, and the score of
\* one line "a".
Thresholds ==
    {BLAME_DEFAULT_MOVE_SCORE, BLAME_DEFAULT_COPY_SCORE, 1 + Alnum["a"]}

\* A final file, blamed as a whole on the target; one or two blobs of the
\* parent to look for its lines in, in either order, each with one of the
\* differ's minimal diffs at context 1; and the score to pass.
CopyArgs(a) ==
    \E buf \in Files(MaxLines) \ {<<>>}, long \in Files(ShortLines) \ {<<>>},
       short \in MaybeFiles(1) \ {<<>>}, swap \in BOOLEAN,
       threshold \in Thresholds :
        \E m1 \in MinimalDiffs(long, buf),
           m2 \in IF short = NoBlob THEN {<<>>} ELSE MinimalDiffs(short, buf) :
            LET e == [ZeroEntry EXCEPT !.num_lines = Len(buf),
                                       !.suspect = UnitTarget]
                c1 == [origin |-> Origin("c2", "f"),
                       patch |-> compare_buffer(xdl_diff(long, buf, m1, 1))]
                c2 == [origin |-> Origin("c2", "g"),
                       patch |-> compare_buffer(xdl_diff(short, buf, m2, 1))]
            IN  /\ swap => short # NoBlob
                /\ a = [kind |-> "copy", buf |-> buf, e |-> e,
                        threshold |-> threshold,
                        cands |-> IF short = NoBlob THEN <<c1>>
                                  ELSE IF swap THEN <<c2, c1>>
                                  ELSE <<c1, c2>>]

\* strlen of the path names that occur: the two of the repository, and a
\* longer one that a copy may have come from.
strlen(path) == [f |-> 1, g |-> 1, src_g |-> 5][path]

\* The suspects of a finished list: the final file, and one commit under
\* two paths, as it is after lines were copied from another file of it.
OutSuspects == {Origin("c3", "f"), Origin("c2", "f"), Origin("c2", "src_g")}

\* Where an entry's lines begin in its suspect's blob.
SrcStarts == {0, 8}

\* The lengths an author name may have.
AuthorLens == {3, 6}

\* The list cmd_pickaxe hands to the output: assign_blame has made every
\* entry guilty and coalesce has run; the file is n lines, each an "a".
\* The author name of each commit is of some length, and the output is
\* porcelain or not.
FinalArgs(a) ==
    \E n \in 1..MaxLines, porcelain \in BOOLEAN,
       author \in [{"c2", "c3"} -> AuthorLens] :
        \E f \in [1..n -> [suspect : OutSuspects, s_lno : SrcStarts]] :
            a = [kind |-> "final",
                 buf |-> [k \in 1..n |-> "a"],
                 porcelain |-> porcelain,
                 author |-> author,
                 list |-> coalesce([k \in 1..n |->
                              [ZeroEntry EXCEPT
                                  !.lno = k - 1, !.num_lines = 1,
                                  !.suspect = f[k].suspect,
                                  !.guilty = TRUE,
                                  !.s_lno = f[k].s_lno]])]

\* The largest number lineno_width is asked about.
MaxCount == 100

\* A number of lines, or a score, whose column width is wanted.
WidthArgs(a) == \E lines \in 0..MaxCount : a = [kind |-> "width", lines |-> lines]

UnitInit ==
    /\ repo = BaseRepo
    /\ ent = <<>>
    /\ pc = "unit"
    /\ suspect = NoOrigin
    /\ parent_origin = <<>>
    /\ pidx = 0
    /\ fatal = ""
    /\ mid = {}
    /\ \/ OverlapArgs(arg) \/ ListArgs(arg) \/ DiffArgs(arg) \/ PassArgs(arg)
       \/ CopyArgs(arg) \/ FinalArgs(arg) \/ WidthArgs(arg)
    /\ res = <<>>

UnitSplitOverlap ==
    /\ pc = "unit"
    /\ arg.kind = "overlap"
    /\ res' = split_overlap(arg.e, arg.tlno, arg.plno, arg.same, UnitParent)
    /\ pc' = "split"
    /\ UNCHANGED <<repo, ent, suspect, parent_origin, pidx, fatal, mid, arg>>

\* ent_score of the entry and of the middle part split_overlap made of it.
UnitEntScore ==
    /\ pc = "split"
    /\ res' = [split |-> res,
               whole |-> ent_score(arg.buf, arg.e),
               middle |-> ent_score(arg.buf, res[2])]
    /\ pc' = "scored"
    /\ UNCHANGED <<repo, ent, suspect, parent_origin, pidx, fatal, mid, arg>>

\* coalesce, and coalesce once more on what it left.
UnitCoalesce ==
    /\ pc \in {"unit", "once"}
    /\ arg.kind = "list"
    /\ res' = IF pc = "unit" THEN <<coalesce(arg.list)>>
              ELSE Append(res, coalesce(res[1]))
    /\ pc' = IF pc = "unit" THEN "once" ELSE "twice"
    /\ UNCHANGED <<repo, ent, suspect, parent_origin, pidx, fatal, mid, arg>>

\* compare_buffer on the lines xdl_diff emits for the two files.
UnitCompareBuffer ==
    /\ pc = "unit"
    /\ arg.kind = "diff"
    /\ LET udiff == BadHeader(xdl_diff(arg.pre, arg.post, arg.m, arg.ctxlen),
                              arg.bad)
       IN  res' = [udiff |-> udiff, patch |-> compare_buffer(udiff)]
    /\ pc' = "patched"
    /\ UNCHANGED <<repo, ent, suspect, parent_origin, pidx, fatal, mid, arg>>

\* pass_blame_to_parent with the patch of the two files at context 0, as
\* get_patch asks for it: on the list given, or, after compare_buffer, on
\* the one entry that blames the target for its whole file.
UnitPassBlame ==
    /\ \/ pc = "unit" /\ arg.kind = "pass"
       \/ pc = "patched" /\ arg.ctxlen = 0
    /\ LET patch == IF pc = "unit"
                    THEN compare_buffer(xdl_diff(arg.pre, arg.post, arg.m, 0))
                    ELSE res.patch
           list == IF pc = "unit" THEN arg.list
                   ELSE PassList(arg.post, 0, Len(arg.post), "target")
       IN  res' = [patch |-> patch, list |-> list,
                   blame |-> pass_blame_to_parent(list, UnitTarget,
                                                  UnitParent, patch)]
    /\ pc' = "passed"
    /\ UNCHANGED <<repo, ent, suspect, parent_origin, pidx, fatal, mid, arg>>

\* The splits find_copy_in_blob hands to copy_split_if_better, in order:
\* one for each region [tlno, chunk->same) in front of a chunk from chunk i
\* on, as split_overlap makes it.
RECURSIVE ProposalsFrom(_, _, _, _, _, _)
ProposalsFrom(patch, i, plno, tlno, e, parent) ==
    IF i > Len(patch) \/ e.num_lines <= tlno THEN <<>>
    ELSE (IF tlno < patch[i].same
          THEN <<split_overlap(e, tlno + e.s_lno, plno,
                               patch[i].same + e.s_lno, parent)>>
          ELSE <<>>)
         \o ProposalsFrom(patch, i + 1, patch[i].p_next, patch[i].t_next,
                          e, parent)

\* The loop of find_copy_in_parent over the file pairs, from pair k on, the
\* patch of each pair given: the split it ends with.
RECURSIVE BestSplitFrom(_, _, _, _, _)
BestSplitFrom(buf, e, cands, k, split) ==
    IF k > Len(cands) THEN split
    ELSE BestSplitFrom(buf, e, cands, k + 1,
             copy_split_if_better(buf, split,
                 find_copy_in_blob(buf, e, cands[k].origin, cands[k].patch)))

\* The search for the entry's lines in the parent's blobs, and the split
\* applied if it passes the score: find_move_in_parent with one blob,
\* find_copy_in_parent with several.
UnitFindCopy ==
    /\ pc = "unit"
    /\ arg.kind = "copy"
    /\ LET split == BestSplitFrom(arg.buf, arg.e, arg.cands, 1, ZeroSplit)
       IN  res' = [proposals |->
                      [k \in DOMAIN arg.cands |->
                          ProposalsFrom(arg.cands[k].patch, 1, 0, 0, arg.e,
                                        arg.cands[k].origin)],
                   split |-> split,
                   applied |-> ApplySplit([ent |-> <<arg.e>>, oops |-> FALSE,
                                           mid |-> {}],
                                          arg.buf, split, 1, arg.threshold).st]
    /\ pc' = "copied"
    /\ UNCHANGED <<repo, ent, suspect, parent_origin, pidx, fatal, mid, arg>>

\* A faulty first pass of output: an entry is compared with the next entry
\* only.
MoreThanOnePathNext(list) ==
    {list[i].suspect.commit : i \in
        {i \in DOMAIN list :
            /\ i + 1 \in DOMAIN list
            /\ list[i + 1].suspect.commit = list[i].suspect.commit
            /\ list[i + 1].suspect.path # list[i].suspect.path}}

\* The first pass of output in porcelain mode: the commits that get
\* MORE_THAN_ONE_PATH, those with an entry and a later entry of another
\* path.
MoreThanOnePath(list) ==
    {list[i].suspect.commit : i \in
        {i \in DOMAIN list :
            \E j \in DOMAIN list :
                /\ j > i
                /\ list[j].suspect.commit = list[i].suspect.commit
                /\ list[j].suspect.path # list[i].suspect.path}}

\* emit_porcelain for the entries from k on, the commits in `shown` having
\* METAINFO_SHOWN and those in `more` MORE_THAN_ONE_PATH: for each entry its
\* header line, whether the block of author, committer, filename and
\* summary lines follows it, and whether a filename line does, in the block
\* or alone.
RECURSIVE EmitPorcelainFrom(_, _, _, _)
EmitPorcelainFrom(list, k, shown, more) ==
    IF k > Len(list) THEN <<>>
    ELSE LET e == list[k]
             commit == e.suspect.commit
             block == commit \notin shown
         IN  <<[suspect |-> e.suspect,
                header |-> <<e.s_lno + 1, e.lno + 1, e.num_lines>>,
                block |-> block,
                filename |-> block \/ commit \in more]>>
             \o EmitPorcelainFrom(list, k + 1, shown \cup {commit}, more)

\* output in porcelain mode: the first pass, then emit_porcelain on every
\* entry in list order.
output(list) == EmitPorcelainFrom(list, 1, {}, MoreThanOnePath(list))

\* lineno_width's loop, at the width and the power of ten reached.
RECURSIVE LinenoWidthFrom(_, _, _)
LinenoWidthFrom(width, i, lines) ==
    IF i <= lines + 1 THEN LinenoWidthFrom(width + 1, i * 10, lines)
    ELSE width

lineno_width(lines) == LinenoWidthFrom(1, 10, lines)

Larger(x, y) == IF x < y THEN y ELSE x

\* The statics and the option find_alignment works on, as they are at
\* program start.
ZeroAlignment ==
    [shown |-> {}, show_name |-> FALSE, longest_file |-> 0,
     longest_author |-> 0, longest_src_lines |-> 0, longest_dst_lines |-> 0,
     largest_score |-> 0]

\* The loop of find_alignment from entry k on: path and author are measured
\* where the entry's commit does not have METAINFO_SHOWN yet, the line
\* numbers and the score at every entry.
RECURSIVE FindAlignmentFrom(_, _, _, _, _)
FindAlignmentFrom(buf, list, author, k, st) ==
    IF k > Len(list) THEN st
    ELSE LET e == list[k]
             commit == e.suspect.commit
             first == commit \notin st.shown
         IN  FindAlignmentFrom(buf, list, author, k + 1,
               [shown |-> st.shown \cup {commit},
                show_name |-> st.show_name
                              \/ (first /\ e.suspect.path # BaseRepo.path),
                longest_file |->
                    IF first THEN Larger(st.longest_file,
                                         strlen(e.suspect.path))
                    ELSE st.longest_file,
                longest_author |->
                    IF first THEN Larger(st.longest_author, author[commit])
                    ELSE st.longest_author,
                longest_src_lines |->
                    Larger(st.longest_src_lines, e.s_lno + e.num_lines),
                longest_dst_lines |->
                    Larger(st.longest_dst_lines, e.lno + e.num_lines),
                largest_score |->
                    Larger(st.largest_score, ent_score(buf, e))])

\* find_alignment: the maxima, and the widths lineno_width makes of them.
find_alignment(buf, list, author) ==
    LET st == FindAlignmentFrom(buf, list, author, 1, ZeroAlignment)
    IN  [st |-> st,
         max_orig_digits |-> lineno_width(st.longest_src_lines),
         max_digits |-> lineno_width(st.longest_dst_lines),
         max_score_digits |-> lineno_width(st.largest_score)]

\* The end of cmd_pickaxe on a finished list: output in porcelain mode,
\* find_alignment otherwise.
UnitOutput ==
    /\ pc = "unit"
    /\ arg.kind = "final"
    /\ res' = IF arg.porcelain THEN [lines |-> output(arg.list)]
              ELSE [align |-> find_alignment(arg.buf, arg.list, arg.author)]
    /\ pc' = "printed"
    /\ UNCHANGED <<repo, ent, suspect, parent_origin, pidx, fatal, mid, arg>>

\* lineno_width on a number.
UnitLinenoWidth ==
    /\ pc = "unit"
    /\ arg.kind = "width"
    /\ res' = lineno_width(arg.lines)
    /\ pc' = "measured"
    /\ UNCHANGED <<repo, ent, suspect, parent_origin, pidx, fatal, mid, arg>>

UnitNext ==
    \/ UnitFindCopy
    \/ UnitOutput
    \/ UnitLinenoWidth
    \/ UnitSplitOverlap
    \/ UnitEntScore
    \/ UnitCoalesce
    \/ UnitCompareBuffer
    \/ UnitPassBlame

UnitSpec == UnitInit /\ [][UnitNext]_vars

-----------------------------------------------------------------------------
(* Properties of the scoreboard *)

\* The lists the command has held in this step: the one it holds now and
\* those split_blame left on the way to it.
Lists == (IF ent = <<>> THEN {} ELSE {ent}) \cup mid

\* The entries of list that cover line i of the final file.
Covering(list, i) ==
    {k \in 1..Len(list) :
        list[k].lno <= i /\ i < list[k].lno + list[k].num_lines}

\* What list says of line i: who is blamed, for which of its lines, and
\* whether for good.
Attribution(list, i) ==
    LET k == CHOOSE j \in Covering(list, i) : TRUE
    IN  [suspect |-> list[k].suspect,
         s_lno |-> list[k].s_lno + (i - list[k].lno),
         guilty |-> list[k].guilty]

Tiled(list) ==
    /\ list # <<>>
    /\ list[1].lno = RangeBottom
    /\ \A k \in 1..(Len(list) - 1) :
          /\ list[k].lno <= list[k + 1].lno
          /\ list[k].lno + list[k].num_lines = list[k + 1].lno
    /\ list[Len(list)].lno + list[Len(list)].num_lines = RangeTop

\* C1: every list the command holds, between steps and after each
\* split_blame, is in ascending order of lno, each entry ends where the next
\* begins, the first begins at the start of the requested range and the last
\* ends at its end.
C1_Partition == \A list \in Lists : Tiled(list)

\* C1's case: split_blame has cut an entry in three.
C1_Witness ==
    /\ \E list \in mid : Len(list) >= 3
    /\ pc # "dead"

\* C2: every entry of every list the command holds has at least one line.
C2_NumLinesPositive ==
    \A list \in Lists : \A k \in 1..Len(list) : list[k].num_lines >= 1

\* C3: every entry of every list the command holds lies within the final
\* file and names no line before the first of its suspect's file.
C3_WithinFile ==
    \A list \in Lists : \A k \in 1..Len(list) :
        /\ 0 <= list[k].lno
        /\ 0 <= list[k].s_lno
        /\ list[k].lno + list[k].num_lines <= Len(final_buf)

\* C3's case: the mover has passed lines to a place further up in the
\* parent's file.
C3_Witness ==
    /\ pc = "take"
    /\ repo.opt = {"MOVE"}
    /\ \E list \in mid : \E k \in 1..Len(list) :
          list[k].suspect.commit = "c2" /\ list[k].s_lno < list[k].lno

\* C4: once assign_blame has returned, every entry is guilty.
C4_AllGuilty ==
    pc \in {"done", "output"} => \A k \in 1..Len(ent) : ent[k].guilty

\* C4's case: assign_blame has returned with blame spread over commits.
C4_Witness ==
    /\ pc = "done"
    /\ \E j, k \in 1..Len(ent) : ent[j].suspect.commit # ent[k].suspect.commit

\* C5: assign_blame, once called, returns.
C5_Terminates == (pc = "assign") ~> (pc = "done")

\* C5's case: blame has gone two commits up before assign_blame returned.
C5_Witness ==
    /\ pc = "done"
    /\ \E k \in 1..Len(ent) : ent[k].suspect.commit = "c1"
    /\ repo.parents["c3"] = <<"c2">>

\* C6: a line that an entry marked guilty covers keeps its suspect and its
\* line in the suspect's file, and stays guilty, in every later step.
C6_GuiltyIsFinal ==
    [][\A i \in 0..(Len(final_buf) - 1) :
          (Covering(ent, i) # {} /\ Attribution(ent, i).guilty)
          => (Covering(ent', i) # {}
              /\ Attribution(ent', i) = Attribution(ent, i))]_vars

\* C6's case: lines are passed to a parent while other lines are guilty.
C6_Witness ==
    /\ pc # "dead"
    /\ mid # {}
    /\ \E k \in 1..Len(ent) : ent[k].guilty

\* C7: coalesce applied to what coalesce left changes nothing.
C7_CoalesceIdempotent == pc = "twice" => res[2] = res[1]

\* C7's case: coalesce has fused some entries of a list and kept others apart.
C7_Witness ==
    /\ pc = "twice"
    /\ Len(res[1]) < Len(arg.list)
    /\ Len(res[1]) > 1

\* C8: the score of an entry is at least 1, and the score of the middle part
\* of a split of the entry is at most the entry's.
C8_ScoreBounds ==
    pc = "scored" => /\ res.whole >= 1
                     /\ res.middle >= 1
                     /\ res.middle <= res.whole

\* C8's case: the middle part is a proper part of an entry with a line of
\* identifiers outside it, and its score is below the entry's.
C8_Witness ==
    /\ pc = "scored"
    /\ res.split[2].suspect = UnitParent
    /\ res.split[2].num_lines < arg.e.num_lines
    /\ res.middle < res.whole

\* The parts of a split that are there, in the order pre, middle, post.
Parts(split) == SelectSeq(split, LAMBDA x : x.suspect # NoOrigin)

RECURSIVE SumLines(_)
SumLines(parts) ==
    IF parts = <<>> THEN 0 ELSE Head(parts).num_lines + SumLines(Tail(parts))

\* C9: the parts split_overlap makes of an entry have the entry's number of
\* lines between them, begin where the entry begins, each end where the next
\* begins, and end where the entry ends.
C9_SplitTiles ==
    pc = "split" =>
        LET parts == Parts(res)
        IN  /\ parts # <<>>
            /\ SumLines(parts) = arg.e.num_lines
            /\ parts[1].lno = arg.e.lno
            /\ \A k \in 1..(Len(parts) - 1) :
                  parts[k].lno + parts[k].num_lines = parts[k + 1].lno
            /\ parts[Len(parts)].lno + parts[Len(parts)].num_lines
                   = arg.e.lno + arg.e.num_lines
            /\ \A k \in 1..Len(parts) : parts[k].num_lines >= 1

\* C9's case: the region lies strictly inside the entry's lines.
C9_Witness ==
    /\ pc = "split"
    /\ Len(Parts(res)) = 3

\* The entries of a list as the output shows them.
Summary(list) ==
    [k \in 1..Len(list) |->
        <<list[k].lno, list[k].num_lines, list[k].suspect.commit,
          list[k].s_lno>>]

\* The blame of a file made of `before`, then a block of k lines new in c3,
\* then `after`, the rest being c2's.
Inserted(before, k, after) ==
    (IF before = 0 THEN <<>> ELSE <<<<0, before, "c2", 0>>>>)
    \o <<<<before, k, "c3", before>>>>
    \o (IF after = 0 THEN <<>> ELSE <<<<before + k, after, "c2", before>>>>)

\* c3 has put lines before + 1 .. before + k into c2's file, and none of them
\* is a line c2's file has.
InsertedAt(before, k) ==
    LET new == repo.blob["c3"]["f"]
        old == repo.blob["c2"]["f"]
    IN  /\ old # NoBlob /\ new # NoBlob
        /\ Len(new) = Len(old) + k
        /\ before + k <= Len(new)
        /\ SubSeq(new, 1, before) = SubSeq(old, 1, before)
        /\ SubSeq(new, before + k + 1, Len(new))
               = SubSeq(old, before + 1, Len(old))
        /\ \A i \in (before + 1)..(before + k), j \in 1..Len(old) :
              new[i] # old[j]

TwoCommits ==
    /\ repo.parents["c3"] = <<"c2">> /\ repo.parents["c2"] = <<>>
    /\ repo.opt = {} /\ repo.L = <<0, 0>>
    /\ repo.uninteresting = {} /\ repo.old = {}

\* C10: when c3 has put one block of new lines into the file of its only
\* parent c2, the lines before the block are c2's with s_lno = lno, the block
\* is c3's with s_lno = lno, and the lines after it are c2's with s_lno = lno
\* less the length of the block; a, b -> a, c, b gives {0,1,c2,0}, {1,1,c3,1},
\* {2,1,c2,1} and a, b -> a, b, c gives {0,2,c2,0}, {2,1,c3,2}.
C10_Insertion ==
    (pc = "output" /\ TwoCommits) =>
        /\ \A before \in 0..MaxLines, k \in 1..MaxLines :
              InsertedAt(before, k)
              => /\ Summary(ent)
                        = Inserted(before, k, Len(final_buf) - before - k)
                 /\ \A j \in 1..Len(ent) : ent[j].guilty
        /\ (final_buf = <<"a", "c", "b">> /\ repo.blob["c2"]["f"] = <<"a", "b">>)
           => Summary(ent) = << <<0, 1, "c2", 0>>, <<1, 1, "c3", 1>>,
                                <<2, 1, "c2", 1>> >>
        /\ (final_buf = <<"a", "b", "c">> /\ repo.blob["c2"]["f"] = <<"a", "b">>)
           => Summary(ent) = << <<0, 2, "c2", 0>>, <<2, 1, "c3", 2>> >>

\* C10's case: a block put between two lines of the parent's file.
C10_Witness ==
    /\ pc = "output" /\ TwoCommits
    /\ InsertedAt(1, 1)
    /\ Len(final_buf) = 3

\* C11: the blame of a file at a commit without parents is, after the last
\* coalesce, one entry that covers the requested range, blamed on that commit
\* and path, guilty, with s_lno = lno; a file of three lines gives
\* {lno 0, num_lines 3, s_lno 0}.
C11_RootCommit ==
    (pc = "output" /\ repo.parents[repo.final] = <<>>) =>
        /\ ent = <<[ZeroEntry EXCEPT
                       !.lno = RangeBottom,
                       !.num_lines = RangeTop - RangeBottom,
                       !.suspect = Origin(repo.final, repo.path),
                       !.guilty = TRUE,
                       !.s_lno = RangeBottom]>>
        /\ ent[1].s_lno = ent[1].lno
        /\ (Len(final_buf) = 3 /\ repo.L = <<0, 0>>)
           => (ent[1].lno = 0 /\ ent[1].num_lines = 3 /\ ent[1].s_lno = 0)

\* C11's case: a range inside a file of three lines at a commit without
\* parents has been blamed.
C11_Witness ==
    /\ pc = "output"
    /\ repo.parents[repo.final] = <<>>
    /\ Len(final_buf) = 3
    /\ repo.L = <<2, 3>>

\* c3's only parent c2, itself without parents, has no f but has under g
\* the very content c3 has under f, and c3 has no g: the tree diff pairs
\* f with g as a rename.
RenamedUnchanged ==
    /\ repo.parents["c3"] = <<"c2">> /\ repo.parents["c2"] = <<>>
    /\ repo.uninteresting = {} /\ repo.old = {}
    /\ repo.blob["c2"]["f"] = NoBlob /\ repo.blob["c3"]["g"] = NoBlob
    /\ final_buf # NoBlob
    /\ repo.blob["c2"]["g"] = final_buf

\* C12: when the parent has the file's content under another path and not
\* under the file's own, every line is blamed on the parent under that other
\* path with its line number unchanged; a file of two lines gives both to
\* (c2, g), lines 0 and 1.
C12_RenameFollowed ==
    (pc = "output" /\ RenamedUnchanged) =>
        /\ ent = <<[ZeroEntry EXCEPT
                       !.lno = RangeBottom,
                       !.num_lines = RangeTop - RangeBottom,
                       !.suspect = Origin("c2", "g"),
                       !.guilty = TRUE,
                       !.s_lno = RangeBottom]>>
        /\ final_buf = <<"a", "b">>
           => Summary(ent) = << <<0, 2, "c2", 0>> >>

\* C12's case: a file of two lines renamed without change, blamed with no
\* options given.
C12_Witness ==
    /\ pc = "output"
    /\ RenamedUnchanged
    /\ final_buf = <<"a", "b">>
    /\ repo.opt = {}

\* c3 has the lines X, Y, Z of the file of its only parent c2 as Y, Z, X,
\* with or without -M.
Rotated ==
    /\ repo.parents["c3"] = <<"c2">> /\ repo.parents["c2"] = <<>>
    /\ repo.uninteresting = {} /\ repo.old = {} /\ repo.L = <<0, 0>>
    /\ repo.blob["c2"]["f"] \in Orders
    /\ final_buf = <<repo.blob["c2"]["f"][2], repo.blob["c2"]["f"][3],
                     repo.blob["c2"]["f"][1]>>

\* C13 as stated: without -M every line of Y, Z, X is blamed on c3.
C13_AllOnChild ==
    (pc = "output" /\ Rotated /\ repo.opt = {}) =>
        \A k \in 1..Len(ent) : ent[k].suspect.commit = "c3"

\* C13, amended: without -M the lines Y, Z, which the diff finds unchanged,
\* are blamed on c2, lines 1..2 of its file, and only X is blamed on c3.
C13_OnlyMovedLineOnChild ==
    (pc = "output" /\ Rotated /\ repo.opt = {}) =>
        /\ Summary(ent) = << <<0, 2, "c2", 1>>, <<2, 1, "c3", 2>> >>
        /\ \A k \in 1..Len(ent) : ent[k].guilty /\ ent[k].suspect.path = "f"

\* C13's case: X, Y, Z -> Y, Z, X has been blamed without -M.
C13_Witness ==
    /\ pc = "output"
    /\ Rotated
    /\ repo.opt = {}
    /\ final_buf = <<"b", "c", "a">>

\* C14: with -M, when c3 has c2's lines X, Y, Z as Y, Z, X and X scores
\* above the move threshold, lines 0..1 are blamed on c2's lines 1..2 and
\* line 2 on c2's line 0.
C14_MoveFound ==
    (/\ pc = "output" /\ Rotated /\ repo.opt = {"MOVE"}
     /\ blame_move_score < 1 + Alnum[final_buf[3]]) =>
        /\ Summary(ent) = << <<0, 2, "c2", 1>>, <<2, 1, "c2", 0>> >>
        /\ \A k \in 1..Len(ent) : ent[k].guilty /\ ent[k].suspect.path = "f"

\* C14's case: X, Y, Z -> Y, Z, X with X a line of identifiers has been
\* blamed with -M.
C14_Witness ==
    /\ pc = "output"
    /\ Rotated
    /\ repo.opt = {"MOVE"}
    /\ final_buf = <<"b", "c", "a">>

\* c3 adds the final file with a body that stands verbatim in the file g of
\* its only parent c2; c2 has no file at the final path and c3 leaves g as
\* it was.
CopiedBody ==
    /\ repo.parents["c3"] = <<"c2">> /\ repo.parents["c2"] = <<>>
    /\ repo.uninteresting = {} /\ repo.old = {} /\ repo.L = <<0, 0>>
    /\ repo.blob["c2"]["f"] = NoBlob
    /\ repo.blob["c2"]["g"] # NoBlob
    /\ repo.blob["c3"]["g"] = repo.blob["c2"]["g"]
    /\ final_buf # NoBlob /\ final_buf # <<>>
    /\ \E o \in 0..(Len(repo.blob["c2"]["g"]) - Len(final_buf)) :
           SubSeq(repo.blob["c2"]["g"], o + 1, o + Len(final_buf)) = final_buf

\* The score of the whole final file.
BodyScore == 1 + SumAlnum(final_buf, 1, Len(final_buf))

\* C15: when c3 adds a file whose body stands verbatim in c2's unchanged
\* file g and scores above the copy threshold, then with -C -C every line of
\* the body is blamed on (c2, g), and without the second -C on c3.
C15_CopyHarder ==
    (/\ pc = "output" /\ CopiedBody
     /\ Similar(repo.blob["c2"]["g"], final_buf)
     /\ blame_copy_score < BodyScore) =>
        /\ "COPY_HARDER" \in repo.opt =>
               \A k \in 1..Len(ent) : ent[k].suspect = Origin("c2", "g")
        /\ "COPY_HARDER" \notin repo.opt =>
               \A k \in 1..Len(ent) : ent[k].suspect = Origin("c3", "f")

\* C16: with -L n,m, when n or m lies beyond the last line of the final file
\* the command dies before assign_blame runs, and when 1 <= n <= m <= the
\* number of lines the first entry is exactly lno = n - 1, num_lines =
\* m - n + 1, s_lno = n - 1 on the final origin.
C16_RangeChecked ==
    [][(Start /\ final_buf # NoBlob) =>
           LET n == repo.L[1]
               m == repo.L[2]
               lines == Len(final_buf)
           IN  /\ (n > lines \/ m > lines) => pc' = "dead"
               /\ (1 <= n /\ n <= m /\ m <= lines) =>
                      /\ pc' = "assign"
                      /\ ent' = <<[ZeroEntry EXCEPT
                                     !.lno = n - 1,
                                     !.num_lines = m - n + 1,
                                     !.suspect = Origin(repo.final, repo.path),
                                     !.s_lno = n - 1]>>]_vars

\* The chunks compare_buffer makes of the same diff with every header sound.
SoundPatch ==
    compare_buffer(xdl_diff(arg.pre, arg.post, arg.m, arg.ctxlen))

\* C17: when the header of a hunk cannot be parsed, no chunk is recorded for
\* the hunk, the chunks of the hunks before it keep their same, p_next and
\* t_next, and pass_blame_to_parent leaves the target's lines that the hunk
\* covers on the target.
C17_BadHeaderDropped ==
    /\ (pc = "patched" /\ arg.bad > 0) =>
           /\ Len(res.patch) = Len(SoundPatch) - 1
           /\ \A i \in 1..(arg.bad - 1) : res.patch[i] = SoundPatch[i]
    /\ (pc = "passed" /\ arg.kind = "diff" /\ arg.bad > 0) =>
           \A i \in SoundPatch[arg.bad].same..(SoundPatch[arg.bad].t_next - 1) :
               /\ Attribution(res.blame.ent, i).suspect = UnitTarget
               /\ ~Attribution(res.blame.ent, i).guilty

\* Line s of the target lies in the divergent range of a chunk of patch.
Divergent(patch, s) ==
    \E c \in 1..Len(patch) : patch[c].same <= s /\ s < patch[c].t_next

\* Where the unchanged region that holds line s of the target begins, in the
\* target (tlno) and in the parent (plno): after the last chunk before s.
RegionOf(patch, s) ==
    LET before == {c \in 1..Len(patch) : patch[c].t_next <= s}
    IN  IF before = {} THEN [tlno |-> 0, plno |-> 0]
        ELSE LET c == CHOOSE x \in before : \A y \in before : y <= x
             IN  [tlno |-> patch[c].t_next, plno |-> patch[c].p_next]

\* The lines of the final file that list covers.
LinesOf(list) == {i \in 0..(2 * MaxLines) : Covering(list, i) # {}}

\* C18: after pass_blame_to_parent, every line for which the target was an
\* unresolved suspect and which lies outside the divergent range of every
\* chunk is blamed on the parent, for line plno + (line - tlno) of it, tlno
\* and plno the start of the unchanged region around it; every such line in
\* a divergent range is still blamed on the target; all other lines are
\* blamed as before; and the entries still tile the same lines.
C18_UnchangedToParent ==
    (pc = "passed" /\ arg.kind = "pass") =>
        /\ ~res.blame.oops
        /\ LinesOf(res.blame.ent) = LinesOf(res.list)
        /\ \A i \in LinesOf(res.list) :
               /\ Cardinality(Covering(res.blame.ent, i)) = 1
               /\ LET was == Attribution(res.list, i)
                      is == Attribution(res.blame.ent, i)
                      at == RegionOf(res.patch, was.s_lno)
                  IN  IF /\ was.suspect = UnitTarget /\ ~was.guilty
                         /\ ~Divergent(res.patch, was.s_lno)
                      THEN is = [suspect |-> UnitParent,
                                 s_lno |-> at.plno + (was.s_lno - at.tlno),
                                 guilty |-> FALSE]
                      ELSE is = was
        /\ \A k \in 1..(Len(res.blame.ent) - 1) :
               res.blame.ent[k].lno + res.blame.ent[k].num_lines
                   = res.blame.ent[k + 1].lno

\* C18's case: an entry of the target, in a final file that has a line of
\* another commit in front, has been split three ways, its middle passed to
\* the parent and the lines before and after left on the target.
C18_Witness ==
    /\ pc = "passed" /\ arg.kind = "pass"
    /\ res.list # <<>>
    /\ res.list[1].suspect = UnitOther
    /\ Len(res.blame.ent) = Len(res.list) + 2
    /\ \E k \in 1..(Len(res.blame.ent) - 2) :
           /\ res.blame.ent[k].suspect = UnitTarget
           /\ res.blame.ent[k + 1].suspect = UnitParent
           /\ res.blame.ent[k + 2].suspect = UnitTarget
           /\ res.blame.ent[k + 2].s_lno
                  = res.blame.ent[k].s_lno + res.blame.ent[k].num_lines
                    + res.blame.ent[k + 1].num_lines

\* The hunks of an edit script from position `from` on, each as the
\* positions of its first and of its last change.
RECURSIVE HunkSpans(_, _, _)
HunkSpans(script, from, ctxlen) ==
    LET changes == {k \in from..Len(script) : script[k] # " "}
    IN  IF changes = {} THEN <<>>
        ELSE LET first == CHOOSE x \in changes : \A y \in changes : x <= y
                 last == HunkLast(script, first, ctxlen)
             IN  <<[first |-> first, last |-> last]>>
                 \o HunkSpans(script, last + 1, ctxlen)

\* The edit script behind the diff compare_buffer was given.
ArgScript == EditScript(arg.pre, arg.post, arg.m, 1, 1)

\* Chunk k of the patch begins at the first divergent line of hunk k and
\* ends after its last: same counts the postimage lines before the hunk's
\* first change, t_next and p_next the postimage and preimage lines up to
\* its last change.
ChunkSpansHunk(k) ==
    LET h == HunkSpans(ArgScript, 1, arg.ctxlen)[k]
    IN  res.patch[k] =
            [same |-> CountKinds(ArgScript, 1, h.first - 1, {" ", "+"}),
             t_next |-> CountKinds(ArgScript, 1, h.last, {" ", "+"}),
             p_next |-> CountKinds(ArgScript, 1, h.last, {" ", "-"})]

\* No line common to both files lies between the changes of hunk k.
NoInnerContext(k) ==
    LET h == HunkSpans(ArgScript, 1, arg.ctxlen)[k]
    IN  \A i \in h.first..h.last : ArgScript[i] # " "

Fusable(left, right) ==
    /\ left.suspect.commit = right.suspect.commit
    /\ left.suspect.path = right.suspect.path
    /\ left.guilty = right.guilty
    /\ left.s_lno + left.num_lines = right.s_lno

\* C20: after coalesce no two adjacent entries are fusable (same commit and
\* path, same guilty flag, the right one's source lines following the left
\* one's); an entry that is not a fusion is as it was, score included; a
\* fused entry is made of entries that were fusable pair by pair and has
\* score 0; and every line of the final file is blamed on the same suspect,
\* for the same line of it, with the same guilty flag as before.
C20_CoalesceFusesOnlyRuns ==
    (pc = "once") =>
        LET before == arg.list
            after == res[1]
        IN  /\ \A k \in 1..(Len(after) - 1) : ~Fusable(after[k], after[k + 1])
            /\ \A k \in 1..Len(after) :
                   IF after[k].num_lines = 1
                   THEN after[k] = before[after[k].lno + 1]
                   ELSE /\ after[k].score = 0
                        /\ \A j \in (after[k].lno + 1)..
                                    (after[k].lno + after[k].num_lines - 1) :
                               Fusable(before[j], before[j + 1])
            /\ \A i \in 0..(Len(before) - 1) :
                   /\ Cardinality(Covering(after, i)) = 1
                   /\ Attribution(after, i) = Attribution(before, i)

\* C20's case: coalesce has fused entries whose scores were known, and has
\* left an entry next to them as it was.
C20_Witness ==
    /\ pc = "once"
    /\ arg.list[1].score # 0
    /\ \E k \in 1..Len(res[1]) : res[1][k].num_lines > 1
    /\ \E k \in 1..Len(res[1]) : res[1][k].num_lines = 1

\* The parents of the suspect, in order, that have the suspect's file, by
\* path or by rename, with the very blob the suspect has.
SameBlobParents ==
    {i \in DOMAIN Parents(suspect.commit) :
        LET po == ParentOrigin(Parents(suspect.commit)[i], suspect)
        IN  po # NoOrigin /\ Blob(po) = Blob(suspect)}

\* C21: when pass_blame finds a parent whose blob for the file is the
\* suspect's blob, every entry that accuses the suspect accuses that parent's
\* origin afterwards, with lno, s_lno and num_lines (and all else) as they
\* were; every other entry is as it was; and pass_blame is over: the next
\* step is the one that ends the iteration, not a propagator, mover or
\* copier step.
C21_SameBlobShortCircuit ==
    [][(pc = "pass_blame" /\ SameBlobParents # {}) =>
           LET first == CHOOSE i \in SameBlobParents :
                            \A j \in SameBlobParents : i <= j
               porigin == ParentOrigin(Parents(suspect.commit)[first], suspect)
           IN  /\ Len(ent') = Len(ent)
               /\ \A k \in 1..Len(ent) :
                      IF ent[k].suspect = suspect
                      THEN /\ ent'[k].suspect = porigin
                           /\ ent'[k].lno = ent[k].lno
                           /\ ent'[k].s_lno = ent[k].s_lno
                           /\ ent'[k].num_lines = ent[k].num_lines
                           /\ ent'[k].guilty = ent[k].guilty
                      ELSE ent'[k] = ent[k]
               /\ pc' = "take"]_vars

\* C21's case: c2 has handed its lines to c1, whose blob is the same, while
\* c3 keeps a line of its own.
C21_Witness ==
    /\ pc = "take"
    /\ suspect = Origin("c2", "f")
    /\ repo.blob["c1"]["f"] = repo.blob["c2"]["f"]
    /\ "c1" \in {Parents("c2")[i] : i \in DOMAIN Parents("c2")}
    /\ \E k \in 1..Len(ent) : ent[k].suspect = Origin("c1", "f") /\ ~ent[k].guilty
    /\ \E k \in 1..Len(ent) : ent[k].suspect = Origin("c3", "f") /\ ent[k].guilty
    /\ \A k \in 1..Len(ent) : ent[k].suspect # Origin("c2", "f")

\* The commits at which the walk stops: uninteresting, or older than max_age.
Boundary == repo.uninteresting \cup repo.old

\* The commits the walk can come to in n more steps from those of S: the
\* parents of the commits that are not boundaries.
RECURSIVE Walked(_, _)
Walked(S, n) ==
    IF n = 0 THEN S
    ELSE Walked(S \cup UNION {{Parents(c)[i] : i \in DOMAIN Parents(c)} :
                               c \in S \ Boundary},
                n - 1)

\* No entry names a commit that lies beyond a boundary.
NotBeyond(list) ==
    \A k \in 1..Len(list) :
        list[k].suspect.commit \in Walked({repo.final}, Cardinality(Commits))

\* C22: a line blamed on a boundary commit (uninteresting, or older than
\* max_age) is blamed on it, for the same line of it, after every step; when
\* such a commit is picked as suspect, the next step is the one that ends the
\* iteration, without parent resolution, propagator, mover or copier, and it
\* marks every entry of the suspect guilty; and no entry ever names a commit
\* that can only be come to through a boundary.
C22_BoundaryStops ==
    [][/\ \A i \in LinesOf(ent) :
              Attribution(ent, i).suspect.commit \in Boundary =>
                  /\ Covering(ent', i) # {}
                  /\ Attribution(ent', i).suspect = Attribution(ent, i).suspect
                  /\ Attribution(ent', i).s_lno = Attribution(ent, i).s_lno
       /\ (pc = "assign" /\ pc' # "done" /\ suspect'.commit \in Boundary) =>
              pc' = "take" /\ ent' = ent
       /\ (pc = "take" /\ suspect.commit \in Boundary) =>
              /\ pc' = "coalesce"
              /\ \A k \in 1..Len(ent) :
                     ent[k].suspect = suspect =>
                         ent'[k] = [ent[k] EXCEPT !.guilty = TRUE]
       /\ NotBeyond(ent')]_vars

\* C22's case: c2, older than max_age, has been blamed for good for lines
\* that its parent c1 has too, next to a line of c3's own.
C22_Witness ==
    /\ pc = "output"
    /\ repo.old = {"c2"}
    /\ Parents("c2") = <<"c1">>
    /\ repo.blob["c1"]["f"] = repo.blob["c2"]["f"]
    /\ \E k \in 1..Len(ent) : ent[k].suspect.commit = "c2" /\ ent[k].guilty
    /\ \E k \in 1..Len(ent) : ent[k].suspect.commit = "c3"

\* The proposals made for the entry, over all the blobs searched, that have
\* a middle part.
Proposed ==
    LET all == IF Len(res.proposals) = 1 THEN res.proposals[1]
               ELSE res.proposals[1] \o res.proposals[2]
    IN  {all[k] : k \in {j \in DOMAIN all : all[j][2].suspect # NoOrigin}}

\* The score of the middle part of a split: one more than the alphanumeric
\* bytes of its lines of the final file.
MiddleScore(split) ==
    1 + SumAlnum(arg.buf, split[2].lno + 1,
                 split[2].lno + split[2].num_lines)

\* The split without the score ent_score may have left in its middle part.
Unscored(split) == [split EXCEPT ![2].score = 0]

\* C23: of the proposals made for an entry, over all the blobs searched, the
\* one retained has the highest score of its middle part; it is applied, the
\* entry giving way to the parts of the split, if and only if that score is
\* strictly greater than the threshold (20 by default for the mover, 40 for
\* the copier); otherwise the entry is left as it was.
C23_BestAboveThreshold ==
    pc = "copied" =>
        /\ IF Proposed = {} THEN res.split[2].suspect = NoOrigin
           ELSE /\ Unscored(res.split) \in Proposed
                /\ \A p \in Proposed : MiddleScore(p) <= MiddleScore(res.split)
        /\ IF Proposed # {} /\ arg.threshold < MiddleScore(res.split)
           THEN /\ ~res.applied.oops
                /\ Summary(res.applied.ent) = Summary(Parts(res.split))
                /\ \E k \in 1..Len(res.applied.ent) :
                       res.applied.ent[k].suspect = res.split[2].suspect
           ELSE res.applied.ent = <<arg.e>>

\* C23's case: two blobs have been searched, the one with the better
\* proposal first, and the better proposal, which passes the score while
\* the other one does not, has been applied.
C23_Witness ==
    /\ pc = "copied"
    /\ Len(arg.cands) = 2
    /\ \E p \in Proposed : /\ MiddleScore(p) < MiddleScore(res.split)
                          /\ MiddleScore(p) <= arg.threshold
                          /\ p[2].suspect = arg.cands[2].origin
    /\ res.split[2].suspect = arg.cands[1].origin
    /\ Len(res.applied.ent) > 1

\* The lines of the entry, counted from its first, that the patch of blob k
\* leaves unchanged: those in no chunk's [same, t_next).
UnchangedIn(k) ==
    {l \in 0..(arg.e.num_lines - 1) : ~Divergent(arg.cands[k].patch, l)}

\* The maximal runs of unchanged lines, each as its first line and the line
\* after its last.
UnchangedRuns(k) ==
    {r \in (0..arg.e.num_lines) \X (0..arg.e.num_lines) :
        /\ r[1] < r[2]
        /\ \A l \in r[1]..(r[2] - 1) : l \in UnchangedIn(k)
        /\ (r[1] - 1) \notin UnchangedIn(k)
        /\ r[2] \notin UnchangedIn(k)}

\* C24: every maximal run of the entry's lines that the patch between a
\* parent blob and the entry's text leaves unchanged is proposed as the
\* middle of a split, wherever it lies: before the first chunk, between
\* chunks, after the last chunk, or the whole entry when the patch has no
\* chunks.
C24_EveryRunProposed ==
    pc = "copied" =>
        \A k \in DOMAIN arg.cands : \A r \in UnchangedRuns(k) :
            \E j \in DOMAIN res.proposals[k] :
                /\ res.proposals[k][j][2].suspect = arg.cands[k].origin
                /\ res.proposals[k][j][2].lno = arg.e.lno + r[1]
                /\ res.proposals[k][j][2].num_lines = r[2] - r[1]


\* The entries of the output that come after another entry of the same
\* commit.
LaterEntries ==
    {k \in DOMAIN arg.list :
        \E j \in 1..(k - 1) :
            arg.list[j].suspect.commit = arg.list[k].suspect.commit}

\* The paths under which a commit is the suspect of entries in the output.
PathsOf(commit) ==
    {arg.list[k].suspect.path : k \in
        {k \in DOMAIN arg.list : arg.list[k].suspect.commit = commit}}

\* C25: in porcelain output, entries in lno order, the metadata block of a
\* commit comes with the first entry of that commit and with no other, and
\* a later entry of the commit has a filename line if and only if the
\* commit is the suspect of entries under at least two paths.
C25_MetadataOnce ==
    (pc = "printed" /\ arg.porcelain) =>
        /\ Len(res.lines) = Len(arg.list)
        /\ \A k \in DOMAIN arg.list :
              /\ res.lines[k].suspect = arg.list[k].suspect
              /\ k > 1 => arg.list[k - 1].lno < arg.list[k].lno
              /\ res.lines[k].block <=> k \notin LaterEntries
              /\ k \in LaterEntries =>
                    (res.lines[k].filename
                        <=> Cardinality(PathsOf(arg.list[k].suspect.commit)) >= 2)

\* C25's case: a commit has three entries, the first two under one path
\* and not adjacent in its blob, the third under another path; the
\* second and the third have a filename line and no block.
C25_Witness ==
    /\ pc = "printed" /\ arg.porcelain
    /\ Len(arg.list) = 3
    /\ \A k \in 1..3 : arg.list[k].suspect.commit = "c2"
    /\ arg.list[1].suspect.path = arg.list[2].suspect.path
    /\ arg.list[3].suspect.path # arg.list[1].suspect.path
    /\ res.lines[1].block
    /\ \A k \in 2..3 : res.lines[k].filename /\ ~res.lines[k].block


\* The number of decimal digits of n.
RECURSIVE Digits(_)
Digits(n) == IF n < 10 THEN 1 ELSE 1 + Digits(n \div 10)

\* C26: the column width computed for a maximum of at least one is the
\* number of decimal digits of that maximum, 1 + floor(log10(max)).
C26_WidthIsDigits ==
    (pc = "measured" /\ arg.lines >= 1) => res = Digits(arg.lines)

\* The largest of a nonempty set of numbers.
MaxOf(S) == CHOOSE x \in S : \A y \in S : y <= x

\* C27: after the alignment pass over the final list, longest_file is the
\* largest path length over all entries and longest_author the largest
\* author length over all entries, also when one commit is the suspect of
\* entries under several paths.
C27_WidthsAreMaxima ==
    (pc = "printed" /\ ~arg.porcelain) =>
        /\ res.align.st.longest_file
               = MaxOf({strlen(arg.list[k].suspect.path) : k \in DOMAIN arg.list})
        /\ res.align.st.longest_author
               = MaxOf({arg.author[arg.list[k].suspect.commit] :
                           k \in DOMAIN arg.list})


\* C28: in every reachable state, each line of each entry is, in the final
\* file, the same text as the line of the suspect's blob the entry names
\* for it: line lno + i of the final file is line s_lno + i of the blob,
\* for every i below num_lines, and s_lno + num_lines does not exceed the
\* number of lines of the blob.
C28_AttributionSound ==
    \A k \in DOMAIN ent :
        LET e == ent[k]
            blob == Blob(e.suspect)
        IN  /\ blob # NoBlob
            /\ e.s_lno + e.num_lines <= Len(blob)
            /\ \A i \in 0..(e.num_lines - 1) :
                  /\ e.lno + i + 1 \in DOMAIN final_buf
                  /\ e.s_lno + i + 1 \in DOMAIN blob
                  /\ final_buf[e.lno + i + 1] = blob[e.s_lno + i + 1]


\* C28's case: the run has ended with a line the copier found in another
\* file of the parent, at another line number than it has in the final
\* file, and with a line the propagator passed to the parent's file.
C28_Witness ==
    /\ pc = "output"
    /\ \E k \in DOMAIN ent : /\ ent[k].suspect.commit # repo.final
                             /\ ent[k].suspect.path # repo.path
                             /\ ent[k].num_lines >= 1
                             /\ ent[k].s_lno # ent[k].lno
    /\ \E k \in DOMAIN ent : /\ ent[k].suspect.commit # repo.final
                             /\ ent[k].suspect.path = repo.path
                             /\ ent[k].num_lines >= 1


\* The parents from index `from` on that have an origin in po.
ResolvedFrom(po, from) == {i \in DOMAIN po : i >= from /\ po[i] # NoOrigin}

IsFirst(i, S) == i \in S /\ \A j \in S : i <= j

\* The lines of the final file that the suspect of the current pass_blame
\* call still holds, not yet for good.
HeldLines(list) ==
    {i \in LinesOf(list) : /\ Attribution(list, i).suspect = suspect
                           /\ ~Attribution(list, i).guilty}

\* Line s of the suspect's blob is unchanged from porigin's blob whichever
\* minimal diff is taken.
SurelyUnchanged(porigin, s) ==
    \A m \in MinimalDiffs(Blob(porigin), Blob(suspect)) :
        ~Divergent(compare_buffer(xdl_diff(Blob(porigin), Blob(suspect), m, 0)),
                   s)

\* One step of a pass_blame call keeps the order of the loops: the
\* propagator for each parent that has an origin, in list order and none
\* left out, then the mover likewise, then the copier for each parent; no
\* step goes back to an earlier loop.
PhasesInOrder ==
    /\ pc = "pass_blame" =>
          /\ pc' = "propagate" => IsFirst(pidx', ResolvedFrom(parent_origin', 1))
          /\ pc' \in {"move", "copy"} => ResolvedFrom(parent_origin', 1) = {}
          /\ pc' = "copy" => pidx' = 1
    /\ pc = "propagate" =>
          /\ pc' = "propagate" =>
                IsFirst(pidx', ResolvedFrom(parent_origin, pidx + 1))
          /\ pc' \in {"move", "copy"} =>
                ResolvedFrom(parent_origin, pidx + 1) = {}
          /\ pc' = "move" => IsFirst(pidx', ResolvedFrom(parent_origin, 1))
          /\ pc' = "copy" => pidx' = 1
    /\ pc = "move" =>
          /\ pc' # "propagate"
          /\ pc' = "move" => IsFirst(pidx', ResolvedFrom(parent_origin, pidx + 1))
          /\ pc' = "copy" => /\ ResolvedFrom(parent_origin, pidx + 1) = {}
                             /\ pidx' = 1
    /\ pc = "copy" =>
          /\ pc' \notin {"propagate", "move"}
          /\ pc' = "copy" => pidx' = pidx + 1

\* The propagator's step for parent pidx takes, of the lines the suspect
\* holds, exactly those that one diff of the two blobs leaves unchanged.
UnchangedTaken ==
    pc = "propagate" =>
        \E m \in MinimalDiffs(Blob(parent_origin[pidx]), Blob(suspect)) :
            LET patch == compare_buffer(xdl_diff(Blob(parent_origin[pidx]),
                                                 Blob(suspect), m, 0))
            IN  \A i \in HeldLines(ent) :
                    IF Divergent(patch, Attribution(ent, i).s_lno)
                    THEN Attribution(ent', i) = Attribution(ent, i)
                    ELSE Attribution(ent', i).suspect = parent_origin[pidx]

\* A step of the propagator, the mover or the copier leaves every line that
\* the suspect does not hold blamed as it was.
PassedStaysPassed ==
    pc \in {"propagate", "move", "copy"} =>
        /\ LinesOf(ent') = LinesOf(ent)
        /\ \A i \in LinesOf(ent) \ HeldLines(ent) :
               Attribution(ent', i) = Attribution(ent, i)

\* A line that leaves the suspect when pass_blame looks up the parents goes
\* to the first parent from whose blob it is unchanged.
EarliestAtLookup ==
    pc = "pass_blame" =>
        LET ps == Parents(suspect.commit)
            po == [j \in DOMAIN ps |-> ParentOrigin(ps[j], suspect)]
        IN  \A i \in HeldLines(ent) :
                LET U == {j \in ResolvedFrom(po, 1) :
                             SurelyUnchanged(po[j], Attribution(ent, i).s_lno)}
                IN  (U # {} /\ Attribution(ent', i).suspect # suspect) =>
                        \E j \in U : /\ IsFirst(j, U)
                                     /\ Attribution(ent', i).suspect = po[j]

\* C29 as stated: within a pass_blame call the propagator runs for all
\* parents that have an origin, in list order, before any mover step, and
\* all mover steps before any copier step; a line unchanged relative to
\* more than one parent goes to the earliest such parent, in whichever way
\* the call hands it on, and no later parent or loop takes a line that was
\* already passed on.
C29_EarliestParentAlways ==
    [][PhasesInOrder /\ UnchangedTaken /\ PassedStaysPassed
       /\ EarliestAtLookup]_vars

\* C29, amended: in a call in which no parent has the suspect's own blob,
\* the loops run in that order, each propagator step takes exactly the
\* lines its diff leaves unchanged, so that a line unchanged relative to
\* several parents goes to the earliest of them, and no later step touches
\* a line already passed on.
C29_PhasesAndEarliestParent ==
    [][PhasesInOrder /\ UnchangedTaken /\ PassedStaysPassed]_vars

\* C29's case: a merge under -M -C whose two parents both have the file,
\* with the same text; the first parent has taken a line from the suspect,
\* the second has none, the suspect holds another line, and the copier is
\* at the second parent: the propagator and the mover have been through
\* both parents.
C29_Witness ==
    /\ pc = "copy" /\ pidx = 2
    /\ Len(parent_origin) = 2
    /\ ResolvedFrom(parent_origin, 1) = {1, 2}
    /\ Blob(parent_origin[1]) = Blob(parent_origin[2])
    /\ \A i \in LinesOf(ent) : Attribution(ent, i).suspect # parent_origin[2]
    /\ \E i \in LinesOf(ent) : Attribution(ent, i).suspect = parent_origin[1]
    /\ HeldLines(ent) # {}

=============================================================================
